---- MODULE Spec2Model ----
(***************************************************************************)
(* Authentication and account-security core of the interview-preparation   *)
(* backend: AuthService (backend/app/services/auth_service.py), the        *)
(* in-memory lockout tracker (backend/app/core/security_middleware.py),    *)
(* the validators (backend/app/core/security_utils.py), the access-token   *)
(* gate (backend/app/core/auth_middleware.py) and the /auth endpoints      *)
(* (backend/app/api/endpoints/auth.py).                                    *)
(*                                                                         *)
(* A request handler is suspended only at an `await` on the document       *)
(* store; the code between two awaits runs without interruption (asyncio   *)
(* is cooperative).  One step of a handler is therefore: the store         *)
(* operation it was waiting for, then its code up to the next await (or to *)
(* its return).  The first step of a call starts at the call and includes  *)
(* its first store operation.  Time is counted in minutes.                 *)
(***************************************************************************)
EXTENDS Integers, Sequences, FiniteSets, TLC

VARIABLES
    users,            \* the "users" collection: _id -> document
    now,              \* datetime.utcnow(), in minutes
    pc,               \* per request handler: the await it is suspended at
    loc,              \* per request handler: its local variables
    ret,              \* per request handler: what its last finished call returned
    calls,            \* number of calls started so far
    next_jti,         \* number of uuid4 values drawn so far
    store_rejects,    \* whether the store rejects two operators on one path
    tracker_log,      \* history: per identifier, the tracker calls made for it
    failed_attempts,  \* security_middleware.failed_attempts
    issued,           \* refresh tokens handed out to clients
    blacklisted_tokens, \* the "blacklisted_tokens" collection: the jtis in it
    refresh_log,      \* history: the token pairs refresh_access_token returned
    revocations,      \* history: the jtis revoke_refresh_token has returned for
    ledger,           \* history: credits added minus credits deducted with success
    streak            \* history: consecutive logins answered INVALID_CREDENTIALS

vars == <<users, now, pc, loc, ret, calls, next_jti, store_rejects, tracker_log,
          failed_attempts, issued, blacklisted_tokens, refresh_log, revocations,
          ledger, streak>>

-----------------------------------------------------------------------------
(* Bounds of the model *)

MaxCreditCalls == 3   \* credit calls started in one behaviour
MaxLoginCalls == 6    \* logins started in one behaviour
MaxRefreshCalls == 4  \* refreshes started in one behaviour
MaxSignupCalls == 3   \* create_user calls started in one behaviour
MaxGateCalls == 3     \* gate, blacklist and profile calls started in one behaviour
MaxTime == 30         \* the clock stops here
TickMinutes == 5      \* the clock advances in steps of this many minutes
MaxBalance == 3       \* largest initial credit balance

(* Program constants *)

MAX_LOGIN_ATTEMPTS == 5
LOCKOUT_DURATION_MINUTES == 15
JWT_ACCESS_TOKEN_EXPIRE_MINUTES == 15
JWT_REFRESH_TOKEN_EXPIRE_DAYS == 7
MinutesPerDay == 1440

Procs == {1, 2}
UserIds == {1}

Max(a, b) == IF a >= b THEN a ELSE b

-----------------------------------------------------------------------------
(* Values *)

\* Optional[datetime]: the empty set is None, {t} is the time t
Null == {}
Some(t) == {t}

\* passlib's bcrypt context: a hash verifies exactly the password it was made from
hash_password(password) == <<"bcrypt", password>>
verify_password(plain_password, hashed_password) ==
    hashed_password = hash_password(plain_password)

\* the account's password (one validate_password_strength accepts) and another
GoodPassword == <<"G", "o", "0", "d", "!", "p", "w", "x">>
BadPassword == <<"w", "r", "o", "n", "g">>

\* str.lower() and str.strip() on an email spelt as a sequence of characters
UpperLetters ==
    <<"A", "B", "C", "D", "E", "F", "G", "H", "I", "J", "K", "L", "M",
      "N", "O", "P", "Q", "R", "S", "T", "U", "V", "W", "X", "Y", "Z">>
LowerLetters ==
    <<"a", "b", "c", "d", "e", "f", "g", "h", "i", "j", "k", "l", "m",
      "n", "o", "p", "q", "r", "s", "t", "u", "v", "w", "x", "y", "z">>
ToLower ==
    [c \in {UpperLetters[i] : i \in DOMAIN UpperLetters} |->
        LowerLetters[CHOOSE i \in DOMAIN UpperLetters : UpperLetters[i] = c]]
LowerChar(c) == IF c \in DOMAIN ToLower THEN ToLower[c] ELSE c
Lower(s) == [i \in DOMAIN s |-> LowerChar(s[i])]
RECURSIVE Strip(_)
Strip(s) ==
    IF s = <<>> THEN s
    ELSE IF Head(s) = " " THEN Strip(Tail(s))
    ELSE IF s[Len(s)] = " " THEN Strip(SubSeq(s, 1, Len(s) - 1))
    ELSE s
normalized_email(email) == Strip(Lower(email))

\* the email of the account, as create_user stored it
AccountEmail == <<"a", "@", "b", ".", "i", "o">>

NoToken == [user_id |-> 0, email |-> <<>>, token_type |-> "none", jti |-> 0, exp |-> 0]

\* a string jwt.decode rejects
Malformed == [NoToken EXCEPT !.token_type = "malformed"]

\* create_token: the caller's claims plus exp, token_type and a fresh jti
create_token(user_id, email, token_type, jti) ==
    [user_id |-> user_id,
     email |-> email,
     token_type |-> token_type,
     jti |-> jti,
     exp |-> IF token_type = "access"
             THEN now + JWT_ACCESS_TOKEN_EXPIRE_MINUTES
             ELSE now + JWT_REFRESH_TOKEN_EXPIRE_DAYS * MinutesPerDay]

\* verify_token: "OK" when jwt.decode accepts the token and the type matches,
\* else the error it raises (token_type "" is the default None: no type check)
verify_token(token, token_type) ==
    IF token.token_type \notin {"access", "refresh"} THEN "INVALID_TOKEN"
    ELSE IF token.exp <= now THEN "TOKEN_EXPIRED"
    ELSE IF token_type # "" /\ token.token_type # token_type THEN "WRONG_TYPE"
    ELSE "OK"

\* the user document create_user inserts, as far as the operations below read it
UserDoc(email, password, credits) ==
    [name |-> Null,
     email |-> email,
     password_hash |-> hash_password(password),
     active_refresh_tokens |-> {},
     credits |-> credits,
     total_operations |-> 0,
     login_count |-> 0,
     failed_login_attempts |-> 0,
     locked_until |-> Null,
     is_active |-> TRUE]

\* local variables of a request handler
NoLoc ==
    [op |-> "none", user_id |-> 0, email |-> <<>>, n |-> 0, before |-> 0,
     credits |-> 0, modified |-> FALSE, token |-> NoToken, new_access |-> NoToken,
     new_refresh |-> NoToken, lock_until |-> 0, pw_ok |-> FALSE, pre_failed |-> 0,
     pre_locked |-> Null, pre_streak |-> 0, at |-> 0, http |-> FALSE, ident |-> <<>>,
     name |-> Null, password_hash |-> <<>>]

\* what a finished call returned (code "OK" or the AuthError code), with the
\* arguments and the document it had read
NoRet ==
    [op |-> "none", code |-> "none", user_id |-> 0, success |-> FALSE,
     new_credit_balance |-> 0, n |-> 0, before |-> 0, access_token |-> NoToken,
     refresh_token |-> NoToken, token |-> NoToken, pw_ok |-> FALSE, pre_failed |-> 0,
     pre_locked |-> Null, pre_streak |-> 0, at |-> 0, locked_out |-> FALSE,
     taken |-> FALSE, email |-> <<>>, name |-> Null, blacklisted |-> FALSE,
     status |-> 0, detail |-> <<>>]

EmptyMap == [k \in {} |-> 0]

Idle(p) == pc[p] = "idle"
AllIdle == \A p \in Procs : Idle(p)

-----------------------------------------------------------------------------
(* AuthService: credits *)

\* get_user_by_id: the document, or None for an absent or inactive account
UserFound(user_id) == user_id \in DOMAIN users /\ users[user_id].is_active

\* deduct_credits, line 366: the insufficient-balance test
DeductRejectsAtEqual(credits, cost) == credits <= cost
DeductRejects(credits, cost) == credits < cost

\* deduct_credits, line 369: the new balance
NewCredits(credits, cost) == Max(0, credits - cost)

\* deduct_credits, lines 370-376: the balance update_one leaves in the document,
\* $set to the value computed from the balance the call had read
DeductByInc(stored, new_credits, cost) == stored - cost
DeductStored(stored, new_credits, cost) == new_credits

\* deduct_credits up to its update_one: get_user_by_id, the balance test, new_credits
deduct_credits_read(p, user_id, cost) ==
    /\ Idle(p)
    /\ calls < MaxCreditCalls
    /\ calls' = calls + 1
    /\ IF ~UserFound(user_id) \/ DeductRejects(users[user_id].credits, cost)
       THEN /\ ret' = [ret EXCEPT ![p] =
                         [NoRet EXCEPT !.op = "deduct_credits",
                                       !.n = cost,
                                       !.before = IF UserFound(user_id)
                                                  THEN users[user_id].credits ELSE 0,
                                       !.success = FALSE,
                                       !.new_credit_balance =
                                           IF UserFound(user_id)
                                           THEN users[user_id].credits ELSE 0]]
            /\ UNCHANGED <<pc, loc>>
       ELSE /\ pc' = [pc EXCEPT ![p] = "deduct_update"]
            /\ loc' = [loc EXCEPT ![p] =
                         [NoLoc EXCEPT !.op = "deduct_credits",
                                       !.user_id = user_id,
                                       !.n = cost,
                                       !.before = users[user_id].credits,
                                       !.credits = NewCredits(users[user_id].credits, cost)]]
            /\ ret' = [ret EXCEPT ![p] = NoRet]
    /\ UNCHANGED <<users, now, next_jti, store_rejects, tracker_log,
                   blacklisted_tokens, revocations, failed_attempts, issued,
                   refresh_log, ledger, streak>>

\* deduct_credits from its update_one: $set credits, $inc total_operations
deduct_credits_update(p) ==
    /\ pc[p] = "deduct_update"
    /\ LET id == loc[p].user_id
           matched == id \in DOMAIN users
       IN /\ users' = IF matched
                      THEN [users EXCEPT ![id].credits =
                                             DeductStored(@, loc[p].credits, loc[p].n),
                                         ![id].total_operations = @ + 1]
                      ELSE users
          /\ ret' = [ret EXCEPT ![p] =
                       [NoRet EXCEPT !.op = "deduct_credits",
                                     !.n = loc[p].n,
                                     !.before = loc[p].before,
                                     !.success = matched,
                                     !.new_credit_balance = loc[p].credits]]
          /\ ledger' = IF matched THEN ledger - loc[p].n ELSE ledger
    /\ pc' = [pc EXCEPT ![p] = "idle"]
    /\ loc' = [loc EXCEPT ![p] = NoLoc]
    /\ UNCHANGED <<now, calls, next_jti, store_rejects, tracker_log,
                   blacklisted_tokens, revocations, failed_attempts, issued,
                   refresh_log, streak>>

\* add_credits up to get_user_by_id: $inc credits
add_credits_update(p, user_id, amount) ==
    /\ Idle(p)
    /\ calls < MaxCreditCalls
    /\ calls' = calls + 1
    /\ LET matched == user_id \in DOMAIN users
       IN /\ users' = IF matched
                      THEN [users EXCEPT ![user_id].credits = @ + amount]
                      ELSE users
          /\ loc' = [loc EXCEPT ![p] =
                       [NoLoc EXCEPT !.op = "add_credits",
                                     !.user_id = user_id,
                                     !.n = amount,
                                     !.modified = matched]]
          /\ ledger' = IF matched THEN ledger + amount ELSE ledger
    /\ pc' = [pc EXCEPT ![p] = "add_read"]
    /\ ret' = [ret EXCEPT ![p] = NoRet]
    /\ UNCHANGED <<now, next_jti, store_rejects, tracker_log,
                   blacklisted_tokens, revocations, failed_attempts, issued,
                   refresh_log, streak>>

\* add_credits from get_user_by_id: the balance it reports is read afterwards
add_credits_read(p) ==
    /\ pc[p] = "add_read"
    /\ ret' = [ret EXCEPT ![p] =
                 [NoRet EXCEPT !.op = "add_credits",
                               !.n = loc[p].n,
                               !.success = loc[p].modified,
                               !.new_credit_balance =
                                   IF UserFound(loc[p].user_id)
                                   THEN users[loc[p].user_id].credits ELSE 0]]
    /\ pc' = [pc EXCEPT ![p] = "idle"]
    /\ loc' = [loc EXCEPT ![p] = NoLoc]
    /\ UNCHANGED <<users, now, calls, next_jti, store_rejects, tracker_log,
                   blacklisted_tokens, revocations, failed_attempts,
                   issued, refresh_log, ledger, streak>>

\* the costs and amounts requests carry (CreditDeductRequest.cost is any int)
Costs == {0, 2, 3, 5}
Amounts == {0, 1, 2}

\* an account with some balance, no request in flight
InitCredits ==
    /\ \E b \in 0 .. MaxBalance :
          /\ users = [id \in UserIds |-> UserDoc(AccountEmail, GoodPassword, b)]
          /\ ledger = b
    /\ now = 0
    /\ pc = [p \in Procs |-> "idle"]
    /\ loc = [p \in Procs |-> NoLoc]
    /\ ret = [p \in Procs |-> NoRet]
    /\ calls = 0
    /\ next_jti = 0
    /\ store_rejects = TRUE
    /\ tracker_log = EmptyMap
    /\ failed_attempts = EmptyMap
    /\ issued = {}
    /\ refresh_log = {}
    /\ streak = 0
    /\ blacklisted_tokens = {}
    /\ revocations = {}

\* deduct_credits and add_credits requests overlapping at their awaits
NextCredits ==
    \E p \in Procs :
        \/ \E id \in UserIds, cost \in Costs : deduct_credits_read(p, id, cost)
        \/ deduct_credits_update(p)
        \/ \E id \in UserIds, amount \in Amounts : add_credits_update(p, id, amount)
        \/ add_credits_read(p)

SpecCredits == InitCredits /\ [][NextCredits]_vars

\* the same requests served one after another
NextCreditsSeq ==
    \/ \E id \in UserIds, cost \in Costs : deduct_credits_read(1, id, cost)
    \/ deduct_credits_update(1)
    \/ \E id \in UserIds, amount \in Amounts : add_credits_update(1, id, amount)
    \/ add_credits_read(1)

SpecCreditsSeq == InitCredits /\ [][NextCreditsSeq]_vars

-----------------------------------------------------------------------------
(* Credits: properties *)

DeductReturned(p) == Idle(p) /\ ret[p].op = "deduct_credits"

\* C3: the stored credit balance of every account is never negative, whether
\* deduct_credits calls run one after another or overlap.
C3_BalanceNeverNegative == \A id \in DOMAIN users : users[id].credits >= 0

\* two overlapping deductions both succeeded and the balance is used up
C3_Witness ==
    /\ \A p \in Procs : DeductReturned(p) /\ ret[p].success /\ ret[p].n > 0
    /\ ret[1].before = ret[2].before
    /\ \E id \in DOMAIN users : users[id].credits = 0

\* C4: deduct_credits with a cost above the current balance reports
\* success=false with the current balance and leaves the stored balance alone;
\* with a cost not above the balance it reports success=true and the balance
\* minus the cost, which is then the stored balance.
C4_DeductOutcome ==
    \A p \in Procs : DeductReturned(p) =>
        LET r == ret[p]
        IN /\ r.n > r.before =>
                /\ ~r.success
                /\ r.new_credit_balance = r.before
                /\ \A id \in DOMAIN users : users[id].credits = r.before
           /\ r.n <= r.before =>
                /\ r.success
                /\ r.new_credit_balance = r.before - r.n
                /\ \A id \in DOMAIN users : users[id].credits = r.before - r.n

\* scenario D: balance 3, cost 5 gives {false, 3}
C4_Witness ==
    /\ DeductReturned(1)
    /\ ret[1].before = 3 /\ ret[1].n = 5
    /\ ~ret[1].success /\ ret[1].new_credit_balance = 3

\* C5: no credit adjustment is lost: once all calls have finished, the balance
\* is the initial balance plus every added amount minus the cost of every
\* deduction that reported success.
C5_NoLostUpdate ==
    AllIdle => \A id \in DOMAIN users : users[id].credits = ledger

-----------------------------------------------------------------------------
(* SecurityMiddleware: the in-memory lockout tracker *)

MapPut(m, k, v) == [x \in DOMAIN m \cup {k} |-> IF x = k THEN v ELSE m[x]]
MapDel(m, k) == [x \in DOMAIN m \ {k} |-> m[x]]

\* the defaultdict's factory value
DefaultAttempt == [count |-> 0, last_attempt |-> Null, locked_until |-> Null]

\* failed_attempts[identifier] on the defaultdict: a missing key is inserted
Touched(fa, identifier) ==
    IF identifier \in DOMAIN fa THEN fa ELSE MapPut(fa, identifier, DefaultAttempt)

\* get_client_identifier: the email as the request spells it, when there is one
get_client_identifier(email) == <<"email", email>>

\* is_locked_out: its answer
is_locked_out(fa, identifier) ==
    \E t \in Touched(fa, identifier)[identifier].locked_until : now < t

\* is_locked_out: the map it leaves (key inserted; an expired lock resets the record)
after_is_locked_out(fa, identifier) ==
    LET m == Touched(fa, identifier)
    IN IF \E t \in m[identifier].locked_until : now >= t
       THEN MapPut(m, identifier, DefaultAttempt)
       ELSE m

\* record_failed_attempt, line 47: the lock threshold
TrackerLocksAbove(count) == count > MAX_LOGIN_ATTEMPTS
TrackerLockDue(count) == count >= MAX_LOGIN_ATTEMPTS

\* record_failed_attempt: the map it leaves
record_failed_attempt(fa, identifier) ==
    LET m == Touched(fa, identifier)
        count == m[identifier].count + 1
    IN MapPut(m, identifier,
              [count |-> count,
               last_attempt |-> Some(now),
               locked_until |-> IF TrackerLockDue(count)
                                THEN Some(now + LOCKOUT_DURATION_MINUTES)
                                ELSE m[identifier].locked_until])

\* record_successful_attempt: the map it leaves
record_successful_attempt(fa, identifier) == MapDel(fa, identifier)

\* check_rate_limit_and_lockout's HTTPException: status and detail, the detail
\* carrying the whole minutes left
LockoutException(fa, identifier) ==
    LET t == CHOOSE t \in after_is_locked_out(fa, identifier)[identifier].locked_until : TRUE
    IN [status |-> 429, detail |-> <<"Account temporarily locked. Try again in", t - now, "minutes.">>]

-----------------------------------------------------------------------------
(* AuthService: authenticate_user, and POST /auth/login around it *)

\* users.find_one({"email": ...}): the ids of the matching documents
FindByEmail(email) == {id \in DOMAIN users : users[id].email = email}

\* login, lines 108-120: the response for an AuthError
LoginErrorStatus(code) ==
    CASE code = "INVALID_CREDENTIALS" -> 401
      [] code = "ACCOUNT_LOCKED" -> 423
      [] code = "ACCOUNT_DEACTIVATED" -> 403
      [] OTHER -> 401
AuthErrorMessage(code) ==
    CASE code = "MISSING_CREDENTIALS" -> <<"Email and password are required">>
      [] code = "INVALID_CREDENTIALS" -> <<"Invalid email or password">>
      [] code = "ACCOUNT_DEACTIVATED" -> <<"Account is deactivated">>
      [] code = "ACCOUNT_LOCKED" ->
            <<"Account is temporarily locked due to too many failed attempts">>
      [] OTHER -> <<"Authentication failed">>
LoginErrorDetail(code) ==
    IF code = "ACCOUNT_LOCKED" THEN AuthErrorMessage(code)
    ELSE <<"Invalid email or password">>

\* what authenticate_user returns or raises, from the call's locals
AuthResult(l, code, access, refresh) ==
    [NoRet EXCEPT !.op = "authenticate_user",
                  !.code = code,
                  !.user_id = l.user_id,
                  !.access_token = access,
                  !.refresh_token = refresh,
                  !.pw_ok = l.pw_ok,
                  !.pre_failed = l.pre_failed,
                  !.pre_locked = l.pre_locked,
                  !.pre_streak = l.pre_streak,
                  !.at = l.at]

\* login, lines 86-123: what the endpoint does with authenticate_user's outcome
LoginResponse(r) ==
    IF r.code = "OK"
    THEN [r EXCEPT !.status = 200, !.detail = <<"bearer">>]
    ELSE [r EXCEPT !.status = LoginErrorStatus(r.code),
                   !.detail = LoginErrorDetail(r.code)]

\* the end of an authenticate_user call: its result goes to the caller, and when
\* the caller is POST /auth/login the endpoint records the outcome in the
\* tracker map fa and answers
AuthReturn(p, l, r, fa) ==
    /\ ret' = [ret EXCEPT ![p] = IF l.http THEN LoginResponse(r) ELSE r]
    /\ failed_attempts' =
          IF ~l.http THEN fa
          ELSE IF r.code = "OK" THEN record_successful_attempt(fa, l.ident)
          ELSE record_failed_attempt(fa, l.ident)
    /\ streak' = IF r.code = "OK" THEN 0
                 ELSE IF r.code = "INVALID_CREDENTIALS" /\ r.user_id # 0 THEN streak + 1
                 ELSE streak
    /\ pc' = [pc EXCEPT ![p] = "idle"]
    /\ loc' = [loc EXCEPT ![p] = NoLoc]

\* authenticate_user, line 195: the AuthError code when find_one finds no document
UserNotFoundCode == "USER_NOT_FOUND"
AbsentAccountCode == "INVALID_CREDENTIALS"

\* authenticate_user, line 204: the lock test on the document read
AccountLocked(locked_until) == \E t \in locked_until : now < t

\* authenticate_user up to the await after find_one (lines 187-212): the
\* checks on the document and the password; fa is the tracker map at the call
AuthFind(p, email, password, http, fa) ==
    LET found == FindByEmail(normalized_email(email))
        id == IF found = {} THEN 0 ELSE CHOOSE i \in found : TRUE
        l == [NoLoc EXCEPT
                !.op = "authenticate_user",
                !.user_id = id,
                !.email = normalized_email(email),
                !.http = http,
                !.ident = IF http THEN get_client_identifier(email) ELSE <<>>,
                !.at = now,
                !.pre_streak = streak,
                !.pw_ok = id # 0 /\ verify_password(password, users[id].password_hash),
                !.pre_failed = IF id = 0 THEN 0 ELSE users[id].failed_login_attempts,
                !.pre_locked = IF id = 0 THEN Null ELSE users[id].locked_until]
        fail(code) == AuthReturn(p, l, AuthResult(l, code, NoToken, NoToken), fa)
    IN IF email = <<>> \/ password = <<>>
       THEN fail("MISSING_CREDENTIALS")
       ELSE IF id = 0
       THEN fail(AbsentAccountCode)
       ELSE IF ~users[id].is_active
       THEN fail("ACCOUNT_DEACTIVATED")
       ELSE IF AccountLocked(users[id].locked_until)
       THEN fail("ACCOUNT_LOCKED")
       ELSE /\ pc' = [pc EXCEPT ![p] =
                        IF l.pw_ok THEN "clear_failed_attempts" ELSE "record_failed_inc"]
            /\ loc' = [loc EXCEPT ![p] = l]
            /\ ret' = [ret EXCEPT ![p] = NoRet]
            /\ failed_attempts' = fa
            /\ UNCHANGED streak

\* a direct call of AuthService.authenticate_user
authenticate_user(p, email, password) ==
    /\ Idle(p)
    /\ calls < MaxLoginCalls
    /\ calls' = calls + 1
    /\ AuthFind(p, email, password, FALSE, failed_attempts)
    /\ UNCHANGED <<users, now, next_jti, store_rejects, tracker_log,
                   blacklisted_tokens, revocations, issued, refresh_log, ledger>>

\* POST /auth/login up to its first await: check_rate_limit_and_lockout, then
\* authenticate_user.  The HTTPException of check_rate_limit_and_lockout is
\* raised inside the endpoint's try block and HTTPException is an Exception, so
\* the handler of line 124 takes it: record_failed_attempt, then status 500.
login(p, email, password) ==
    /\ Idle(p)
    /\ calls < MaxLoginCalls
    /\ calls' = calls + 1
    /\ LET identifier == get_client_identifier(email)
           fa == after_is_locked_out(failed_attempts, identifier)
       IN IF is_locked_out(failed_attempts, identifier)
          THEN /\ failed_attempts' = record_failed_attempt(fa, identifier)
               /\ ret' = [ret EXCEPT ![p] =
                            [NoRet EXCEPT !.op = "login",
                                          !.code = "HTTPException",
                                          !.locked_out = TRUE,
                                          !.at = now,
                                          !.status = 500,
                                          !.detail = <<"Authentication failed">>]]
               /\ UNCHANGED <<pc, loc, streak>>
          ELSE AuthFind(p, email, password, TRUE, fa)
    /\ UNCHANGED <<users, now, next_jti, store_rejects, tracker_log,
                   blacklisted_tokens, revocations, issued, refresh_log, ledger>>

\* _record_failed_login, lines 431-437: the counter update_one leaves, an
\* atomic $inc on the stored value (snapshot is the value the call had read)
IncFromSnapshot(stored, snapshot) == snapshot + 1
IncFailedAttempts(stored, snapshot) == stored + 1

_record_failed_login_inc(p) ==
    /\ pc[p] = "record_failed_inc"
    /\ users' = [users EXCEPT ![loc[p].user_id].failed_login_attempts =
                                  IncFailedAttempts(@, loc[p].pre_failed)]
    /\ pc' = [pc EXCEPT ![p] = "record_failed_find"]
    /\ UNCHANGED <<now, loc, ret, calls, next_jti, store_rejects, tracker_log,
                   blacklisted_tokens, revocations, failed_attempts,
                   issued, refresh_log, ledger, streak>>

\* _record_failed_login, line 443: the lock threshold
LocksAbove(failed_attempts_read) == failed_attempts_read > MAX_LOGIN_ATTEMPTS
LockDue(failed_attempts_read) == failed_attempts_read >= MAX_LOGIN_ATTEMPTS

\* _record_failed_login, lines 440-444: find_one, the threshold, lock_until;
\* without a lock the call ends here with INVALID_CREDENTIALS (line 212)
_record_failed_login_find(p) ==
    /\ pc[p] = "record_failed_find"
    /\ IF LockDue(users[loc[p].user_id].failed_login_attempts)
       THEN /\ loc' = [loc EXCEPT ![p].lock_until = now + LOCKOUT_DURATION_MINUTES]
            /\ pc' = [pc EXCEPT ![p] = "record_failed_lock"]
            /\ UNCHANGED <<ret, failed_attempts, streak>>
       ELSE AuthReturn(p, loc[p],
                       AuthResult(loc[p], "INVALID_CREDENTIALS", NoToken, NoToken),
                       failed_attempts)
    /\ UNCHANGED <<users, now, calls, next_jti, store_rejects, tracker_log,
                   blacklisted_tokens, revocations, issued, refresh_log,
                   ledger>>

\* _record_failed_login, lines 445-448: $set locked_until; then line 212
_record_failed_login_lock(p) ==
    /\ pc[p] = "record_failed_lock"
    /\ users' = [users EXCEPT ![loc[p].user_id].locked_until = Some(loc[p].lock_until)]
    /\ AuthReturn(p, loc[p],
                  AuthResult(loc[p], "INVALID_CREDENTIALS", NoToken, NoToken),
                  failed_attempts)
    /\ UNCHANGED <<now, calls, next_jti, store_rejects, tracker_log,
                   blacklisted_tokens, revocations, issued, refresh_log, ledger>>

\* _clear_failed_attempts, lines 458-462: the security fields it $sets
KeepsLock(doc) == [doc EXCEPT !.failed_login_attempts = 0]
ClearedAttempts(doc) ==
    [doc EXCEPT !.failed_login_attempts = 0, !.locked_until = Null]

_clear_failed_attempts(p) ==
    /\ pc[p] = "clear_failed_attempts"
    /\ users' = [users EXCEPT ![loc[p].user_id] = ClearedAttempts(@)]
    /\ pc' = [pc EXCEPT ![p] = "update_login_stats"]
    /\ UNCHANGED <<now, loc, ret, calls, next_jti, store_rejects, tracker_log,
                   blacklisted_tokens, revocations, failed_attempts,
                   issued, refresh_log, ledger, streak>>

\* _update_login_stats, then the two create_token calls of lines 223-224
_update_login_stats(p) ==
    /\ pc[p] = "update_login_stats"
    /\ users' = [users EXCEPT ![loc[p].user_id].login_count = @ + 1]
    /\ loc' = [loc EXCEPT
                 ![p].new_access =
                     create_token(loc[p].user_id, loc[p].email, "access", next_jti + 1),
                 ![p].new_refresh =
                     create_token(loc[p].user_id, loc[p].email, "refresh", next_jti + 2)]
    /\ next_jti' = next_jti + 2
    /\ pc' = [pc EXCEPT ![p] = "store_refresh_token"]
    /\ UNCHANGED <<now, ret, calls, store_rejects, tracker_log,
                   blacklisted_tokens, revocations, failed_attempts, issued,
                   refresh_log, ledger, streak>>

\* _store_refresh_token: verify_token, then $push of the jti; a failure is only
\* logged.  authenticate_user then returns the account and both tokens.
_store_refresh_token(p) ==
    /\ pc[p] = "store_refresh_token"
    /\ users' = IF verify_token(loc[p].new_refresh, "refresh") = "OK"
                THEN [users EXCEPT ![loc[p].user_id].active_refresh_tokens =
                                       @ \cup {loc[p].new_refresh.jti}]
                ELSE users
    /\ issued' = issued \cup {loc[p].new_access, loc[p].new_refresh}
    /\ AuthReturn(p, loc[p],
                  AuthResult(loc[p], "OK", loc[p].new_access, loc[p].new_refresh),
                  failed_attempts)
    /\ UNCHANGED <<now, calls, next_jti, store_rejects, tracker_log,
                   blacklisted_tokens, revocations, refresh_log, ledger>>

\* the clock
Tick ==
    /\ now + TickMinutes <= MaxTime
    /\ now' = now + TickMinutes
    /\ UNCHANGED <<users, pc, loc, ret, calls, next_jti, store_rejects, tracker_log,
                   blacklisted_tokens, revocations,
                   failed_attempts, issued, refresh_log, ledger, streak>>

\* one account, fresh from create_user, no request in flight
InitLogin ==
    /\ users = [id \in UserIds |-> UserDoc(AccountEmail, GoodPassword, 50)]
    /\ ledger = 50
    /\ now = 0
    /\ pc = [p \in Procs |-> "idle"]
    /\ loc = [p \in Procs |-> NoLoc]
    /\ ret = [p \in Procs |-> NoRet]
    /\ calls = 0
    /\ next_jti = 0
    /\ store_rejects = TRUE
    /\ tracker_log = EmptyMap
    /\ failed_attempts = EmptyMap
    /\ issued = {}
    /\ refresh_log = {}
    /\ streak = 0
    /\ blacklisted_tokens = {}
    /\ revocations = {}

Passwords == {GoodPassword, BadPassword}

\* authenticate_user calls served one after another, the clock running
NextLoginSeq ==
    \/ Tick
    \/ \E password \in Passwords : authenticate_user(1, AccountEmail, password)
    \/ _record_failed_login_inc(1)
    \/ _record_failed_login_find(1)
    \/ _record_failed_login_lock(1)
    \/ _clear_failed_attempts(1)
    \/ _update_login_stats(1)
    \/ _store_refresh_token(1)

SpecLoginSeq == InitLogin /\ [][NextLoginSeq]_vars

\* wrong-password authenticate_user calls overlapping at their awaits
NextLoginWrong ==
    \/ Tick
    \/ \E p \in Procs :
          \/ authenticate_user(p, AccountEmail, BadPassword)
          \/ _record_failed_login_inc(p)
          \/ _record_failed_login_find(p)
          \/ _record_failed_login_lock(p)

SpecLoginWrong == InitLogin /\ [][NextLoginWrong]_vars

-----------------------------------------------------------------------------
(* Account lockout: properties *)

AuthReturned(p) == Idle(p) /\ ret[p].op = "authenticate_user"

\* the lock the call read had expired when the call started
LockExpiredAtCall(r) == r.pre_locked # Null /\ \A t \in r.pre_locked : r.at >= t

\* C6: each of MAX_LOGIN_ATTEMPTS consecutive wrong-password logins of an
\* account fails with INVALID_CREDENTIALS, the last one included and leaving a
\* lockout expiry LOCKOUT_DURATION_MINUTES ahead; the login after them fails
\* with ACCOUNT_LOCKED whatever its password, while that expiry has not passed.
C6_LockedAfterMaxFailures ==
    \A p \in Procs : AuthReturned(p) =>
        LET r == ret[p]
        IN /\ (r.pre_streak < MAX_LOGIN_ATTEMPTS /\ ~r.pw_ok) =>
                r.code = "INVALID_CREDENTIALS"
           /\ (r.pre_streak = MAX_LOGIN_ATTEMPTS - 1 /\ ~r.pw_ok) =>
                \E t \in users[r.user_id].locked_until :
                    t >= r.at + LOCKOUT_DURATION_MINUTES
           /\ (r.pre_streak = MAX_LOGIN_ATTEMPTS /\ \E t \in r.pre_locked : r.at < t) =>
                r.code = "ACCOUNT_LOCKED"

\* the sixth login carries the right password and is answered ACCOUNT_LOCKED
C6_Witness ==
    /\ AuthReturned(1)
    /\ ret[1].pre_streak = MAX_LOGIN_ATTEMPTS
    /\ ret[1].pw_ok
    /\ ret[1].at > 0
    /\ ret[1].code = "ACCOUNT_LOCKED"

\* C7: once the lockout duration has elapsed, a login with the correct
\* password succeeds, issues tokens, and leaves the failed-login counter 0 and
\* no lockout expiry.
C7_LoginAfterLockoutElapsed ==
    \A p \in Procs : (AuthReturned(p) /\ ret[p].pw_ok /\ LockExpiredAtCall(ret[p])) =>
        /\ ret[p].code = "OK"
        /\ ret[p].access_token.token_type = "access"
        /\ ret[p].refresh_token.token_type = "refresh"
        /\ users[ret[p].user_id].failed_login_attempts = 0
        /\ users[ret[p].user_id].locked_until = Null

\* a correct-password login made after the lock expired has returned
C7_Witness ==
    /\ AuthReturned(1)
    /\ ret[1].pw_ok
    /\ LockExpiredAtCall(ret[1])
    /\ ret[1].pre_failed = MAX_LOGIN_ATTEMPTS
    /\ ret[1].code = "OK"

\* C8: the first authenticate_user after the lockout expiry has passed finds
\* the account unlocked with failed-login counter 0, whatever its password: a
\* wrong password then leaves the counter at 1 and sets no new lock.
C8_CounterRestartsAfterExpiry ==
    \A p \in Procs : (AuthReturned(p) /\ LockExpiredAtCall(ret[p])) =>
        LET r == ret[p]
            doc == users[r.user_id]
        IN /\ r.code # "ACCOUNT_LOCKED"
           /\ r.pw_ok => doc.failed_login_attempts = 0
           /\ ~r.pw_ok => /\ doc.failed_login_attempts = 1
                          /\ \A t \in doc.locked_until : t <= r.at

\* C9: overlapping wrong-password logins are all counted: the failed-login
\* counter is the number of logins answered INVALID_CREDENTIALS plus those past
\* their $inc, and once all have finished with the counter at
\* MAX_LOGIN_ATTEMPTS or more the account has a lockout expiry.
C9_FailuresAllCounted ==
    \A id \in DOMAIN users :
        /\ users[id].failed_login_attempts =
              streak + Cardinality({p \in Procs :
                           pc[p] \in {"record_failed_find", "record_failed_lock"}})
        /\ (AllIdle /\ users[id].failed_login_attempts >= MAX_LOGIN_ATTEMPTS) =>
              users[id].locked_until # Null

\* two logins that read the same counter value both failed, and the account
\* is locked at MAX_LOGIN_ATTEMPTS
C9_Witness ==
    /\ \A p \in Procs : AuthReturned(p) /\ ret[p].code = "INVALID_CREDENTIALS"
    /\ ret[1].pre_failed = ret[2].pre_failed
    /\ \E id \in DOMAIN users :
          /\ users[id].failed_login_attempts = MAX_LOGIN_ATTEMPTS
          /\ users[id].locked_until # Null

-----------------------------------------------------------------------------
(* POST /auth/login requests, the tracker and the account together *)

\* the account's email as create_user stored it, and another spelling of it
EmailInputs == {AccountEmail, <<" ", "A", "@", "B", ".", "i", "o">>}

NextHttp ==
    \/ Tick
    \/ \E email \in EmailInputs, password \in Passwords : login(1, email, password)
    \/ _record_failed_login_inc(1)
    \/ _record_failed_login_find(1)
    \/ _record_failed_login_lock(1)
    \/ _clear_failed_attempts(1)
    \/ _update_login_stats(1)
    \/ _store_refresh_token(1)

SpecHttp == InitLogin /\ [][NextHttp]_vars

\* C10: when the tracker reports the client identifier as locked out, POST
\* /auth/login answers 429 (or 423) with the remaining-lockout-time message,
\* and no account is looked up and no password checked for that request.
C10_LockedOutAnswers429 ==
    \A p \in Procs : (Idle(p) /\ ret[p].locked_out) =>
        /\ ret[p].status \in {429, 423}
        /\ ret[p].detail # <<>>
        /\ ret[p].detail[1] = "Account temporarily locked. Try again in"
        /\ ret[p].user_id = 0
        /\ ~ret[p].pw_ok

-----------------------------------------------------------------------------
(* AuthService: refresh_access_token *)

\* $pull of one jti and $push of another on active_refresh_tokens
PullPush(active, old_jti, new_jti) == (active \ {old_jti}) \cup {new_jti}

\* _replace_refresh_token, lines 418-426: what update_one leaves of
\* active_refresh_tokens.  The update names the path active_refresh_tokens
\* under two operators; MongoDB refuses such an update (write error 40,
\* "Updating the path ... would create a conflict"), motor raises it, and
\* line 425 catches and logs it: the array stays as it was.  A store that
\* took the update would apply both operators at once.
ReplaceUpdate(active, old_jti, new_jti) ==
    IF store_rejects THEN active ELSE PullPush(active, old_jti, new_jti)

RefreshResult(code, token, access, refresh) ==
    [NoRet EXCEPT !.op = "refresh_access_token",
                  !.code = code,
                  !.user_id = token.user_id,
                  !.token = token,
                  !.access_token = access,
                  !.refresh_token = refresh,
                  !.at = now]

\* refresh_access_token up to the await in _replace_refresh_token (lines
\* 241-262 and 415-416): verify, find_one, the active-set test, the new pair
refresh_access_token(p, refresh_token) ==
    /\ Idle(p)
    /\ calls < MaxRefreshCalls
    /\ calls' = calls + 1
    /\ LET v == verify_token(refresh_token, "refresh")
           id == refresh_token.user_id
           fail(code) ==
               /\ ret' = [ret EXCEPT ![p] =
                            RefreshResult(code, refresh_token, NoToken, NoToken)]
               /\ UNCHANGED <<pc, loc, next_jti>>
       IN IF v # "OK" THEN fail(v)
          ELSE IF id = 0 \/ refresh_token.email = <<>> THEN fail("INVALID_REFRESH_TOKEN")
          ELSE IF ~UserFound(id) THEN fail("USER_NOT_FOUND")
          ELSE IF refresh_token.jti \notin users[id].active_refresh_tokens
          THEN fail("REVOKED")
          ELSE /\ loc' = [loc EXCEPT ![p] =
                            [NoLoc EXCEPT
                               !.op = "refresh_access_token",
                               !.user_id = id,
                               !.email = refresh_token.email,
                               !.token = refresh_token,
                               !.at = now,
                               !.new_access =
                                   create_token(id, refresh_token.email, "access",
                                                next_jti + 1),
                               !.new_refresh =
                                   create_token(id, refresh_token.email, "refresh",
                                                next_jti + 2)]]
               /\ next_jti' = next_jti + 2
               /\ pc' = [pc EXCEPT ![p] = "replace_refresh_token"]
               /\ ret' = [ret EXCEPT ![p] = NoRet]
    /\ UNCHANGED <<users, now, store_rejects, tracker_log,
                   blacklisted_tokens, revocations, failed_attempts, issued, refresh_log,
                   ledger, streak>>

\* _replace_refresh_token's update_one; then refresh_access_token returns the
\* new pair (line 267) whatever became of the update
_replace_refresh_token(p) ==
    /\ pc[p] = "replace_refresh_token"
    /\ LET id == loc[p].user_id
       IN users' = IF id \in DOMAIN users
                      /\ verify_token(loc[p].new_refresh, "refresh") = "OK"
                   THEN [users EXCEPT ![id].active_refresh_tokens =
                            ReplaceUpdate(@, loc[p].token.jti, loc[p].new_refresh.jti)]
                   ELSE users
    /\ ret' = [ret EXCEPT ![p] =
                 RefreshResult("OK", loc[p].token, loc[p].new_access, loc[p].new_refresh)]
    /\ issued' = issued \cup {loc[p].new_access, loc[p].new_refresh}
    /\ refresh_log' = refresh_log \cup
                        {[user_id |-> loc[p].user_id,
                          old |-> loc[p].token.jti,
                          new |-> loc[p].new_refresh.jti]}
    /\ pc' = [pc EXCEPT ![p] = "idle"]
    /\ loc' = [loc EXCEPT ![p] = NoLoc]
    /\ UNCHANGED <<now, calls, next_jti, store_rejects, tracker_log,
                   blacklisted_tokens, revocations, failed_attempts, ledger,
                   streak>>

\* the token pair of the account's first login
FirstAccess == create_token(1, AccountEmail, "access", 1)
FirstRefresh == create_token(1, AccountEmail, "refresh", 2)

\* the account after one login: its refresh token's jti is the active set
InitRefresh ==
    /\ now = 0
    /\ users = [id \in UserIds |->
                  [UserDoc(AccountEmail, GoodPassword, 50) EXCEPT
                      !.active_refresh_tokens = {FirstRefresh.jti},
                      !.login_count = 1]]
    /\ issued = {FirstAccess, FirstRefresh}
    /\ next_jti = 2
    /\ store_rejects \in BOOLEAN
    /\ tracker_log = EmptyMap
    /\ ledger = 50
    /\ pc = [p \in Procs |-> "idle"]
    /\ loc = [p \in Procs |-> NoLoc]
    /\ ret = [p \in Procs |-> NoRet]
    /\ calls = 0
    /\ failed_attempts = EmptyMap
    /\ refresh_log = {}
    /\ streak = 0
    /\ blacklisted_tokens = {}
    /\ revocations = {}

\* refresh requests overlapping at their awaits, each presenting some token
\* a client holds
NextRefresh ==
    \E p \in Procs :
        \/ \E token \in issued : refresh_access_token(p, token)
        \/ _replace_refresh_token(p)

SpecRefresh == InitRefresh /\ [][NextRefresh]_vars

-----------------------------------------------------------------------------
(* Refresh rotation: properties *)

\* the jtis of the refresh tokens a refresh_access_token call has been served for
Spent == {r.old : r \in refresh_log}

\* C1: after refresh_access_token has succeeded with a refresh token, every
\* later refresh_access_token call presenting that token fails as revoked.
C1_StaleRefreshTokenRevoked ==
    [][\A p \in Procs : \A token \in issued :
          (token.jti \in Spent /\ refresh_access_token(p, token)) =>
              ret'[p].code = "REVOKED"]_vars

\* C2: of the refresh_access_token calls presenting one refresh token at most
\* one returns a new pair, and a rotated jti and its replacement are never both
\* honored, nor both dropped while the replacement has not been rotated itself.
C2_RotationIsAtomicSwap ==
    /\ \A a, b \in refresh_log : a.old = b.old => a = b
    /\ \A a \in refresh_log :
          LET active == users[a.user_id].active_refresh_tokens
          IN /\ ~(a.old \in active /\ a.new \in active)
             /\ a.new \notin Spent => (a.old \in active \/ a.new \in active)

\* C12: when create_user, authenticate_user or refresh_access_token returns a
\* token pair, the jti of the refresh token it returns is in the owning
\* account's active set at that moment.
C12_ReturnedRefreshTokenActive ==
    [][\A p \in Procs :
          (/\ ~Idle(p)
           /\ pc'[p] = "idle"
           /\ ret'[p].op \in {"create_user", "authenticate_user", "refresh_access_token"}
           /\ ret'[p].code = "OK") =>
              /\ ret'[p].user_id \in DOMAIN users'
              /\ ret'[p].refresh_token.jti \in
                     users'[ret'[p].user_id].active_refresh_tokens]_vars

-----------------------------------------------------------------------------
(* AuthService: revoke_refresh_token *)

\* revoke_refresh_token, lines 287-290: {"$set": {"active_refresh_tokens": []}}
SetsNothing(doc) == doc
SetNoActiveTokens(doc) == [doc EXCEPT !.active_refresh_tokens = {}]

\* $pull of one jti from active_refresh_tokens
PullKeeps(active, jti) == active
Pull(active, jti) == active \ {jti}

\* revoke_refresh_token: with a token, verify it and $pull its jti (a token
\* that does not verify raises, which line 291 logs); without one (NoToken),
\* $set the array to [].  One update_one, then it returns None either way.
revoke_update(user_id, refresh_token) ==
    IF user_id \notin DOMAIN users THEN users
    ELSE IF refresh_token = NoToken
    THEN [users EXCEPT ![user_id] = SetNoActiveTokens(@)]
    ELSE IF verify_token(refresh_token, "refresh") = "OK"
    THEN [users EXCEPT ![user_id].active_refresh_tokens = Pull(@, refresh_token.jti)]
    ELSE users

\* a direct call of AuthService.revoke_refresh_token
revoke_refresh_token(p, user_id, refresh_token) ==
    /\ Idle(p)
    /\ calls < MaxRefreshCalls
    /\ calls' = calls + 1
    /\ users' = revoke_update(user_id, refresh_token)
    /\ ret' = [ret EXCEPT ![p] =
                 [NoRet EXCEPT !.op = "revoke_refresh_token",
                               !.code = "OK",
                               !.user_id = user_id,
                               !.token = refresh_token,
                               !.at = now]]
    /\ revocations' = revocations \cup {[user_id |-> user_id, token |-> refresh_token]}
    /\ UNCHANGED <<now, pc, loc, next_jti, store_rejects, tracker_log, failed_attempts, issued,
                   blacklisted_tokens, refresh_log, ledger, streak>>

\* refreshes and logouts of one account's clients, overlapping
NextRevoke ==
    \E p \in Procs :
        \/ \E token \in issued : refresh_access_token(p, token)
        \/ _replace_refresh_token(p)
        \/ \E token \in issued \cup {NoToken} : revoke_refresh_token(p, 1, token)

SpecRevoke == InitRefresh /\ [][NextRevoke]_vars

\* revoke_refresh_token(token.user_id, token) has returned
Revoked(token) == [user_id |-> token.user_id, token |-> token] \in revocations

\* C11: once revoke_refresh_token(user_id, T) has returned for a refresh token
\* T of that user, a refresh_access_token(T) call fails as revoked, although T
\* still verifies (signed, unexpired, refresh type).
C11_RevokedTokenNotHonored ==
    [][\A p \in Procs : \A token \in issued :
          (/\ Revoked(token)
           /\ verify_token(token, "refresh") = "OK"
           /\ refresh_access_token(p, token)) =>
              ret'[p].code = "REVOKED"]_vars

C11_Witness ==
    \E p \in Procs :
        /\ ret[p].op = "refresh_access_token"
        /\ ret[p].code = "REVOKED"
        /\ Revoked(ret[p].token)
        /\ verify_token(ret[p].token, "refresh") = "OK"

-----------------------------------------------------------------------------
(* security_utils: the validators create_user calls *)

PASSWORD_MIN_LENGTH == 8
PASSWORD_MAX_LENGTH == 128
EMAIL_MAX_LENGTH == 254
LOCAL_PART_MAX_LENGTH == 64
DOMAIN_MAX_LENGTH == 253
NAME_MAX_LENGTH == 100

Range(s) == {s[i] : i \in DOMAIN s}
Digits == <<"0", "1", "2", "3", "4", "5", "6", "7", "8", "9">>
Letters == Range(LowerLetters) \cup Range(UpperLetters)

\* s has sub as a substring
Contains(s, sub) ==
    \E i \in 1..(Len(s) - Len(sub) + 1) : SubSeq(s, i, i + Len(sub) - 1) = sub

\* r'(.)\1{3,}': one character four times in a row
RepeatedCharacters(s) ==
    \E i \in 1..(Len(s) - 3) : s[i] = s[i + 1] /\ s[i] = s[i + 2] /\ s[i] = s[i + 3]

\* r'(012|123|...|789|890)'
SequentialNumbers(s) ==
    \E d \in 1..9 :
        Contains(s, <<Digits[d], Digits[d + 1], Digits[IF d = 9 THEN 1 ELSE d + 2]>>)

\* r'(abc|bcd|...|xyz)'
SequentialLetters(s) ==
    \E l \in 1..24 :
        Contains(s, <<LowerLetters[l], LowerLetters[l + 1], LowerLetters[l + 2]>>)

\* r'(qwe|asd|zxc|qaz|wsx|edc)'
KeyboardPatterns(s) ==
    \E k \in {<<"q", "w", "e">>, <<"a", "s", "d">>, <<"z", "x", "c">>,
              <<"q", "a", "z">>, <<"w", "s", "x">>, <<"e", "d", "c">>} :
        Contains(s, k)

PasswordSymbols ==
    {"!", "@", "#", "$", "%", "^", "&", "*", "(", ")", ",", ".", "?", "\"", ":",
     "{", "}", "|", "<", ">"}

\* validate_password_strength without the common_patterns loop of lines 53-62
CompositionAndScoreOnly(password, score) ==
    /\ password # <<>>
    /\ Len(password) >= PASSWORD_MIN_LENGTH
    /\ Len(password) <= PASSWORD_MAX_LENGTH
    /\ Range(password) \cap Range(LowerLetters) # {}
    /\ Range(password) \cap Range(UpperLetters) # {}
    /\ Range(password) \cap Range(Digits) # {}
    /\ Range(password) \cap PasswordSymbols # {}
    /\ score >= 2
\* validate_password_strength: TRUE when it returns is_valid.  score is what
\* zxcvbn answers for the password (0..4)
validate_password_strength(password, score) ==
    /\ password # <<>>
    /\ Len(password) >= PASSWORD_MIN_LENGTH
    /\ Len(password) <= PASSWORD_MAX_LENGTH
    /\ Range(password) \cap Range(LowerLetters) # {}
    /\ Range(password) \cap Range(UpperLetters) # {}
    /\ Range(password) \cap Range(Digits) # {}
    /\ Range(password) \cap PasswordSymbols # {}
    /\ ~RepeatedCharacters(Lower(password))
    /\ ~SequentialNumbers(Lower(password))
    /\ ~SequentialLetters(Lower(password))
    /\ ~KeyboardPatterns(Lower(password))
    /\ score >= 2

\* r'^[a-zA-Z0-9._%+-]+@[a-zA-Z0-9.-]+\.[a-zA-Z]{2,}$'
EmailPattern(e) ==
    \E i \in 2..Len(e) :
        /\ e[i] = "@"
        /\ \A k \in 1..(i - 1) :
              e[k] \in Letters \cup Range(Digits) \cup {".", "_", "%", "+", "-"}
        /\ \E j \in (i + 2)..(Len(e) - 2) :
              /\ e[j] = "."
              /\ \A k \in (i + 1)..(j - 1) :
                    e[k] \in Letters \cup Range(Digits) \cup {".", "-"}
              /\ \A k \in (j + 1)..Len(e) : e[k] \in Letters

\* email.rsplit('@', 1)
AtIndex(e) == CHOOSE i \in 1..Len(e) : e[i] = "@" /\ \A k \in (i + 1)..Len(e) : e[k] # "@"
LocalPart(e) == SubSeq(e, 1, AtIndex(e) - 1)
DomainPart(e) == SubSeq(e, AtIndex(e) + 1, Len(e))

\* the keys of common_domains
TypoDomains ==
    {<<"g", "m", "i", "a", "l", ".", "c", "o", "m">>,
     <<"g", "m", "a", "i", ".", "c", "o", "m">>,
     <<"y", "a", "h", "o", "o", "o", ".", "c", "o", "m">>,
     <<"h", "o", "t", "m", "i", "a", "l", ".", "c", "o", "m">>,
     <<"o", "u", "t", "l", "o", "k", ".", "c", "o", "m">>}

\* validate_email_format: TRUE when it returns is_valid
validate_email_format(raw) ==
    LET email == Lower(Strip(raw))
    IN /\ raw # <<>>
       /\ Len(email) <= EMAIL_MAX_LENGTH
       /\ EmailPattern(email)
       /\ Len(LocalPart(email)) <= LOCAL_PART_MAX_LENGTH
       /\ Head(LocalPart(email)) # "."
       /\ LocalPart(email)[Len(LocalPart(email))] # "."
       /\ ~Contains(LocalPart(email), <<".", ".">>)
       /\ Len(DomainPart(email)) <= DOMAIN_MAX_LENGTH
       /\ DomainPart(email) \notin TypoDomains

\* re.sub(r'[<>\"\'&]', '', ...)
RECURSIVE RemoveDangerous(_)
RemoveDangerous(s) ==
    IF s = <<>> THEN s
    ELSE IF Head(s) \in {"<", ">", "\"", "'", "&"} THEN RemoveDangerous(Tail(s))
    ELSE <<Head(s)>> \o RemoveDangerous(Tail(s))

\* sanitize_name
sanitize_name(name) ==
    IF name = <<>> THEN <<>>
    ELSE LET cleaned == RemoveDangerous(Strip(name))
         IN IF Len(cleaned) > NAME_MAX_LENGTH
            THEN SubSeq(cleaned, 1, NAME_MAX_LENGTH)
            ELSE cleaned

-----------------------------------------------------------------------------
(* AuthService: create_user *)

\* the number of store operations create_user has awaited when it raises code:
\* both validations (lines 112-121) come before find_one (line 128)
StoreOpsAfterFind(code) == 1
StoreOpsBefore(code) == IF code \in {"INVALID_EMAIL", "WEAK_PASSWORD"} THEN 0 ELSE 1

\* lines 112-130: the AuthError create_user raises before it builds the
\* document, or "OK"
create_user_check(email, password, score) ==
    IF ~validate_email_format(email) THEN "INVALID_EMAIL"
    ELSE IF ~validate_password_strength(password, score) THEN "WEAK_PASSWORD"
    ELSE IF FindByEmail(normalized_email(email)) # {} THEN "EMAIL_EXISTS"
    ELSE "OK"

CreateErrorMessage(code) ==
    CASE code = "INVALID_EMAIL" -> "Invalid email format"
      [] code = "WEAK_PASSWORD" -> "Password is too weak"
      [] code = "EMAIL_EXISTS" -> "An account with this email already exists"
      [] OTHER -> "Failed to create user account"

\* what a create_user call returned; code "None" is an AuthError without code
CreateResult(code, user_id, email, n, taken, access, refresh) ==
    [NoRet EXCEPT !.op = "create_user",
                  !.code = code,
                  !.user_id = user_id,
                  !.email = email,
                  !.n = n,
                  !.taken = taken,
                  !.success = (code = "OK"),
                  !.access_token = access,
                  !.refresh_token = refresh,
                  !.detail = IF code = "OK" THEN <<>> ELSE <<CreateErrorMessage(code)>>,
                  !.at = now]

\* ObjectId of an inserted document
NewUserId == Cardinality(DOMAIN users) + 1

\* create_user up to insert_one: validation, find_one, the document (lines 112-161)
create_user(p, name, email, password, score) ==
    /\ Idle(p)
    /\ calls < MaxSignupCalls
    /\ calls' = calls + 1
    /\ LET code == create_user_check(email, password, score)
       IN IF code # "OK"
          THEN /\ ret' = [ret EXCEPT ![p] =
                            CreateResult(code, 0, email, StoreOpsBefore(code),
                                         code = "EMAIL_EXISTS", NoToken, NoToken)]
               /\ UNCHANGED <<pc, loc>>
          ELSE /\ loc' = [loc EXCEPT ![p] =
                            [NoLoc EXCEPT
                               !.op = "create_user",
                               !.email = normalized_email(email),
                               !.name = IF name = Null \/ name = Some(<<>>)
                                        THEN Null
                                        ELSE {sanitize_name(n) : n \in name},
                               !.password_hash = hash_password(password),
                               !.n = 1,
                               !.at = now]]
               /\ pc' = [pc EXCEPT ![p] = "create_user_insert"]
               /\ ret' = [ret EXCEPT ![p] = NoRet]
    /\ UNCHANGED <<users, now, next_jti, store_rejects, tracker_log, failed_attempts, issued,
                   blacklisted_tokens, refresh_log, revocations, ledger, streak>>

\* insert_one (line 164) under the unique index on email (line 101): a
\* duplicate raises, and line 181 turns that into an AuthError without code;
\* otherwise the document is stored and the two tokens are created
create_user_insert(p) ==
    /\ pc[p] = "create_user_insert"
    /\ IF FindByEmail(loc[p].email) # {}
       THEN /\ ret' = [ret EXCEPT ![p] =
                         CreateResult("None", 0, loc[p].email, loc[p].n + 1, TRUE,
                                      NoToken, NoToken)]
            /\ pc' = [pc EXCEPT ![p] = "idle"]
            /\ loc' = [loc EXCEPT ![p] = NoLoc]
            /\ UNCHANGED <<users, next_jti>>
       ELSE /\ users' = [id \in DOMAIN users \cup {NewUserId} |->
                           IF id = NewUserId
                           THEN [UserDoc(loc[p].email, <<>>, 50) EXCEPT
                                    !.name = loc[p].name,
                                    !.password_hash = loc[p].password_hash]
                           ELSE users[id]]
            /\ loc' = [loc EXCEPT ![p] =
                         [@ EXCEPT
                            !.user_id = NewUserId,
                            !.n = @ + 1,
                            !.new_access =
                                create_token(NewUserId, loc[p].email, "access",
                                             next_jti + 1),
                            !.new_refresh =
                                create_token(NewUserId, loc[p].email, "refresh",
                                             next_jti + 2)]]
            /\ next_jti' = next_jti + 2
            /\ pc' = [pc EXCEPT ![p] = "create_user_store_refresh_token"]
            /\ UNCHANGED ret
    /\ UNCHANGED <<now, calls, store_rejects, tracker_log, failed_attempts, issued,
                   blacklisted_tokens, refresh_log, revocations, ledger, streak>>

\* _store_refresh_token called from create_user (line 173): $push of the jti
create_user_store_refresh_token(p) ==
    /\ pc[p] = "create_user_store_refresh_token"
    /\ users' = IF verify_token(loc[p].new_refresh, "refresh") = "OK"
                THEN [users EXCEPT ![loc[p].user_id].active_refresh_tokens =
                                       @ \cup {loc[p].new_refresh.jti}]
                ELSE users
    /\ loc' = [loc EXCEPT ![p].n = @ + 1]
    /\ pc' = [pc EXCEPT ![p] = "create_user_update_login_stats"]
    /\ UNCHANGED <<now, ret, calls, next_jti, store_rejects, tracker_log, failed_attempts, issued,
                   blacklisted_tokens, refresh_log, revocations, ledger, streak>>

\* _update_login_stats called from create_user (line 176), then the return
create_user_update_login_stats(p) ==
    /\ pc[p] = "create_user_update_login_stats"
    /\ users' = [users EXCEPT ![loc[p].user_id].login_count = @ + 1]
    /\ ret' = [ret EXCEPT ![p] =
                 CreateResult("OK", loc[p].user_id, loc[p].email, loc[p].n + 1, FALSE,
                              loc[p].new_access, loc[p].new_refresh)]
    /\ issued' = issued \cup {loc[p].new_access, loc[p].new_refresh}
    /\ pc' = [pc EXCEPT ![p] = "idle"]
    /\ loc' = [loc EXCEPT ![p] = NoLoc]
    /\ UNCHANGED <<now, calls, next_jti, store_rejects, tracker_log, failed_attempts,
                   blacklisted_tokens, refresh_log, revocations, ledger, streak>>

\* user.name, user.email, user.password of the signup requests, and zxcvbn's score
SignupNames == {Null, Some(<<" ", "<", "B">>)}
SignupEmails == {AccountEmail, <<" ", "N", "@", "b", ".", "i", "o">>, <<"a", "@", "x">>}
SignupPasswords == {GoodPassword, <<"A", "b", "c", "d", "1", "2", "3", "4", "!">>}
ZxcvbnScores == {1, 2}

\* create_user calls, overlapping, on a store that holds one account
NextSignup ==
    \E p \in Procs :
        \/ \E name \in SignupNames, email \in SignupEmails,
              password \in SignupPasswords, score \in ZxcvbnScores :
              create_user(p, name, email, password, score)
        \/ create_user_insert(p)
        \/ create_user_store_refresh_token(p)
        \/ create_user_update_login_stats(p)

SpecSignup == InitLogin /\ [][NextSignup]_vars

-----------------------------------------------------------------------------
(* Account creation: properties *)

\* C13: whenever a create_user call has persisted its account, the jti of
\* the refresh token it made for that account is in the account's active set:
\* no state holds the account without it.
C13_AccountAndFirstTokenAtomic ==
    \A p \in Procs :
        (loc[p].op = "create_user" /\ loc[p].user_id \in DOMAIN users) =>
            loc[p].new_refresh.jti \in users[loc[p].user_id].active_refresh_tokens

\* C14: a create_user call that fails with INVALID_EMAIL or WEAK_PASSWORD has
\* awaited no store operation, and the accounts are what they were before it.
C14_ValidationFailureTouchesNothing ==
    [][\A p \in Procs :
          \A name \in SignupNames, email \in SignupEmails,
             password \in SignupPasswords, score \in ZxcvbnScores :
             (/\ create_user(p, name, email, password, score)
              /\ ret'[p].code \in {"INVALID_EMAIL", "WEAK_PASSWORD"}) =>
                 /\ users' = users
                 /\ ret'[p].n = 0]_vars

C14_Witness ==
    \E p, q \in Procs :
        /\ ret[p].op = "create_user" /\ ret[p].code = "INVALID_EMAIL"
        /\ ret[q].op = "create_user" /\ ret[q].code = "WEAK_PASSWORD"
        /\ Cardinality(DOMAIN users) = 2

\* C15: no two accounts have the same normalized email, and a create_user call
\* for an email that belongs to an account fails with EMAIL_EXISTS and
\* creates nothing, also when it overlaps another call for the same email.
C15_EmailUnique ==
    /\ \A a, b \in DOMAIN users :
          normalized_email(users[a].email) = normalized_email(users[b].email) => a = b
    /\ \A p \in Procs :
          (Idle(p) /\ ret[p].op = "create_user" /\ ret[p].taken) =>
              /\ ret[p].code = "EMAIL_EXISTS"
              /\ ~ret[p].success

-----------------------------------------------------------------------------
(* auth_middleware: get_current_user; AuthService: blacklist_token,
   is_token_blacklisted, update_user_profile *)

\* blacklist_token: insert_one of the jti when the token verifies (any type);
\* otherwise the error is only logged
blacklist_token(p, token) ==
    /\ Idle(p)
    /\ calls < MaxGateCalls
    /\ calls' = calls + 1
    /\ blacklisted_tokens' = IF verify_token(token, "") = "OK"
                             THEN blacklisted_tokens \cup {token.jti}
                             ELSE blacklisted_tokens
    /\ ret' = [ret EXCEPT ![p] =
                 [NoRet EXCEPT !.op = "blacklist_token", !.code = "OK",
                               !.token = token, !.at = now]]
    /\ UNCHANGED <<users, now, pc, loc, next_jti, store_rejects, tracker_log, failed_attempts,
                   issued, refresh_log, revocations, ledger, streak>>

\* is_token_blacklisted: find_one of the jti when the token verifies, else False
NeverBlacklisted(token) == FALSE
is_token_blacklisted(token) ==
    /\ verify_token(token, "") = "OK"
    /\ token.jti # 0
    /\ token.jti \in blacklisted_tokens

\* get_current_user, lines 65-70: the detail for an AuthError of verify_token
GateErrorDetail(code) ==
    CASE code = "TOKEN_EXPIRED" -> "Token has expired, please login again"
      [] code = "INVALID_TOKEN" -> "Invalid or malformed token"
      [] OTHER -> "Authentication failed"

\* what get_current_user answered: the account (code "OK") or an HTTPException
GateResult(code, token, user_id, at, blacklisted, detail) ==
    [NoRet EXCEPT !.op = "get_current_user",
                  !.code = code,
                  !.token = token,
                  !.user_id = user_id,
                  !.at = at,
                  !.blacklisted = blacklisted,
                  !.status = IF code = "OK" THEN 200 ELSE 401,
                  !.detail = IF code = "OK" THEN <<>> ELSE <<detail>>]

\* get_current_user up to get_user_by_id (lines 20-47): the credentials,
\* verify_token as an access token, the user_id claim, the blacklist lookup.
\* NoToken is a request without credentials.
get_current_user(p, token) ==
    /\ Idle(p)
    /\ calls < MaxGateCalls
    /\ calls' = calls + 1
    /\ LET v == verify_token(token, "access")
           fail(code, detail) ==
               /\ ret' = [ret EXCEPT ![p] =
                            GateResult(code, token, 0, now,
                                       is_token_blacklisted(token), detail)]
               /\ UNCHANGED <<pc, loc>>
       IN IF token = NoToken THEN fail("NO_CREDENTIALS", "Authorization token required")
          ELSE IF v # "OK" THEN fail(v, GateErrorDetail(v))
          ELSE IF token.user_id = 0 THEN fail("NO_USER_ID", "Invalid token payload")
          ELSE IF is_token_blacklisted(token)
          THEN fail("BLACKLISTED", "Token has been revoked")
          ELSE /\ loc' = [loc EXCEPT ![p] =
                            [NoLoc EXCEPT !.op = "get_current_user",
                                          !.token = token,
                                          !.user_id = token.user_id,
                                          !.at = now]]
               /\ pc' = [pc EXCEPT ![p] = "gate_get_user"]
               /\ ret' = [ret EXCEPT ![p] = NoRet]
    /\ UNCHANGED <<users, now, next_jti, store_rejects, tracker_log, failed_attempts, issued,
                   blacklisted_tokens, refresh_log, revocations, ledger, streak>>

\* get_current_user, lines 50-62: get_user_by_id, then the account or 401
gate_get_user(p) ==
    /\ pc[p] = "gate_get_user"
    /\ ret' = [ret EXCEPT ![p] =
                 IF UserFound(loc[p].user_id)
                 THEN GateResult("OK", loc[p].token, loc[p].user_id, loc[p].at,
                                 FALSE, "")
                 ELSE GateResult("USER_NOT_FOUND", loc[p].token, 0, loc[p].at,
                                 FALSE, "User not found or inactive")]
    /\ pc' = [pc EXCEPT ![p] = "idle"]
    /\ loc' = [loc EXCEPT ![p] = NoLoc]
    /\ UNCHANGED <<users, now, calls, next_jti, store_rejects, tracker_log, failed_attempts,
                   issued, blacklisted_tokens, refresh_log, revocations, ledger,
                   streak>>

\* what update_user_profile returned (success: a user; otherwise None) and
\* what update_profile (auth.py 190-201) answers for it
ProfileResult(user_id, name, returned_user) ==
    [NoRet EXCEPT !.op = "update_user_profile",
                  !.code = IF returned_user THEN "OK" ELSE "None",
                  !.user_id = user_id,
                  !.name = name,
                  !.success = returned_user,
                  !.status = IF returned_user THEN 200 ELSE 404,
                  !.detail = IF returned_user THEN <<>> ELSE <<"User not found">>,
                  !.at = now]

\* the document after update_one's $set of update_data (line 344)
ProfileSet(doc, name) == [doc EXCEPT !.name = Some(sanitize_name(name))]

\* update_user_profile up to get_user_by_id: without a name (Null) it returns
\* None at once; with one, update_one on {_id} and, when nothing was modified,
\* None
update_user_profile(p, user_id, name) ==
    /\ Idle(p)
    /\ calls < MaxGateCalls
    /\ calls' = calls + 1
    /\ IF name = Null
       THEN /\ ret' = [ret EXCEPT ![p] = ProfileResult(user_id, name, FALSE)]
            /\ UNCHANGED <<users, pc, loc>>
       ELSE IF user_id \notin DOMAIN users
       THEN /\ ret' = [ret EXCEPT ![p] = ProfileResult(user_id, name, FALSE)]
            /\ UNCHANGED <<users, pc, loc>>
       ELSE /\ users' = [users EXCEPT ![user_id] =
                           ProfileSet(@, CHOOSE n \in name : TRUE)]
            /\ loc' = [loc EXCEPT ![p] =
                         [NoLoc EXCEPT !.op = "update_user_profile",
                                       !.user_id = user_id,
                                       !.name = name,
                                       !.at = now]]
            /\ pc' = [pc EXCEPT ![p] = "profile_get_user"]
            /\ ret' = [ret EXCEPT ![p] = NoRet]
    /\ UNCHANGED <<now, next_jti, store_rejects, tracker_log, failed_attempts, issued,
                   blacklisted_tokens, refresh_log, revocations, ledger, streak>>

\* update_user_profile, line 348: get_user_by_id and the return
profile_get_user(p) ==
    /\ pc[p] = "profile_get_user"
    /\ ret' = [ret EXCEPT ![p] =
                 ProfileResult(loc[p].user_id, loc[p].name, UserFound(loc[p].user_id))]
    /\ pc' = [pc EXCEPT ![p] = "idle"]
    /\ loc' = [loc EXCEPT ![p] = NoLoc]
    /\ UNCHANGED <<users, now, calls, next_jti, store_rejects, tracker_log, failed_attempts,
                   issued, blacklisted_tokens, refresh_log, revocations, ledger,
                   streak>>

\* the account after its first login, active or deactivated since
FirstLoginDoc(is_active) ==
    [UserDoc(AccountEmail, GoodPassword, 50) EXCEPT
        !.active_refresh_tokens = {FirstRefresh.jti},
        !.login_count = 1,
        !.is_active = is_active]

InitAccountWith(is_active) ==
    /\ now = 0
    /\ users = [id \in UserIds |-> FirstLoginDoc(is_active)]
    /\ issued = {FirstAccess, FirstRefresh}
    /\ next_jti = 2
    /\ store_rejects = TRUE
    /\ tracker_log = EmptyMap
    /\ ledger = 50
    /\ pc = [p \in Procs |-> "idle"]
    /\ loc = [p \in Procs |-> NoLoc]
    /\ ret = [p \in Procs |-> NoRet]
    /\ calls = 0
    /\ failed_attempts = EmptyMap
    /\ refresh_log = {}
    /\ streak = 0
    /\ blacklisted_tokens = {}
    /\ revocations = {}

InitAccount == \E is_active \in BOOLEAN : InitAccountWith(is_active)
InitDeactivated == InitAccountWith(FALSE)

\* the bearer tokens requests carry: any issued token, none, or a malformed one
BearerTokens == issued \cup {NoToken, Malformed}

\* PUT /auth/profile inputs: the user id, and UserProfileUpdate.name
ProfileUserIds == {1, 2}
ProfileNames == {Null, Some(<<"B", "&", "o">>)}

\* requests for a deactivated account, one after another.  Its
\* authenticate_user and refresh_access_token calls end at their first store
\* operation (lines 198 and 250), so their later steps have nothing to do here.
NextDeactivated ==
    \/ Tick
    \/ \E password \in Passwords : authenticate_user(1, AccountEmail, password)
    \/ \E token \in issued : refresh_access_token(1, token)
    \/ \E token \in BearerTokens : get_current_user(1, token)
    \/ gate_get_user(1)
    \/ \E user_id \in ProfileUserIds, name \in ProfileNames :
          update_user_profile(1, user_id, name)
    \/ profile_get_user(1)

SpecDeactivated == InitDeactivated /\ [][NextDeactivated]_vars

\* the access-token gate and the blacklist, one request after another
NextGateSeq ==
    \/ Tick
    \/ \E token \in BearerTokens : get_current_user(1, token)
    \/ gate_get_user(1)
    \/ \E token \in issued : blacklist_token(1, token)

SpecGateSeq == InitAccount /\ [][NextGateSeq]_vars

\* C16: for an account with is_active false, authenticate_user fails with
\* ACCOUNT_DEACTIVATED, refresh_access_token fails, get_current_user rejects
\* its access tokens with 401, and no field of the account changes.
C16_DeactivatedAccountInert ==
    \A id \in DOMAIN users : ~users[id].is_active =>
        /\ users[id] = FirstLoginDoc(FALSE)
        /\ \A p \in Procs : Idle(p) =>
              /\ (ret[p].op = "authenticate_user") =>
                    ret[p].code = "ACCOUNT_DEACTIVATED"
              /\ (ret[p].op = "refresh_access_token" /\ ret[p].user_id = id) =>
                    ret[p].code # "OK"
              /\ (ret[p].op = "get_current_user" /\ ret[p].token.user_id = id) =>
                    (ret[p].code # "OK" /\ ret[p].status = 401)

\* the conditions under which the gate is to resolve an identity, for a
\* request made at time at
GateAccepts(token, at) ==
    /\ token # NoToken
    /\ token.token_type = "access"
    /\ token.exp > at
    /\ token.user_id # 0
    /\ token.jti \notin blacklisted_tokens
    /\ token.user_id \in DOMAIN users
    /\ users[token.user_id].is_active

\* C17: get_current_user returns an account exactly when the bearer token is
\* an unexpired access token with a user_id, its jti is not blacklisted and
\* the account exists and is active; otherwise it answers 401 and resolves
\* no identity.
C17_GateResolvesOnlyValidIdentity ==
    \A p \in Procs : (Idle(p) /\ ret[p].op = "get_current_user") =>
        /\ (ret[p].code = "OK") <=> GateAccepts(ret[p].token, ret[p].at)
        /\ (ret[p].code = "OK") => ret[p].user_id = ret[p].token.user_id
        /\ (ret[p].code # "OK") => (ret[p].status = 401 /\ ret[p].user_id = 0)

C17_Witness ==
    \E p \in Procs :
        /\ Idle(p)
        /\ ret[p].op = "get_current_user"
        /\ ret[p].code = "BLACKLISTED"
        /\ ret[p].token.token_type = "access"
        /\ ret[p].token.exp > ret[p].at
        /\ users[ret[p].token.user_id].is_active

\* the access-token gate under overlapping requests
NextGate ==
    \/ Tick
    \/ \E p \in Procs :
          \/ \E token \in BearerTokens : get_current_user(p, token)
          \/ gate_get_user(p)
          \/ \E token \in issued : blacklist_token(p, token)

SpecGate == InitAccount /\ [][NextGate]_vars

\* C18: the gate's response (status and detail) for an expired token is the
\* same as for an otherwise invalid token.
C18_ExpiredAndInvalidAlike ==
    \A p, q \in Procs :
        (/\ Idle(p) /\ ret[p].op = "get_current_user" /\ ret[p].code = "TOKEN_EXPIRED"
         /\ Idle(q) /\ ret[q].op = "get_current_user" /\ ret[q].code = "INVALID_TOKEN") =>
            /\ ret[p].status = ret[q].status
            /\ ret[p].detail = ret[q].detail

-----------------------------------------------------------------------------
(* POST /auth/login for known and unknown emails *)

\* an email no account has
UnknownEmail == <<"n", "@", "b", ".", "i", "o">>

\* overlapping login requests for the account's email and for an unknown one
NextLoginWho ==
    \E p \in Procs :
        \/ \E email \in {AccountEmail, UnknownEmail}, password \in Passwords :
              login(p, email, password)
        \/ _record_failed_login_inc(p)
        \/ _record_failed_login_find(p)
        \/ _record_failed_login_lock(p)
        \/ _clear_failed_attempts(p)
        \/ _update_login_stats(p)
        \/ _store_refresh_token(p)

SpecLoginWho == InitLogin /\ [][NextLoginWho]_vars

\* authenticate_user found no account for the email
AbsentAccount(r) == r.op = "authenticate_user" /\ r.user_id = 0

\* authenticate_user found the account, active and not under a lock in force,
\* and the password did not verify
WrongPassword(r) ==
    /\ r.op = "authenticate_user"
    /\ r.user_id # 0
    /\ ~r.pw_ok
    /\ users[r.user_id].is_active
    /\ \A t \in r.pre_locked : r.at >= t

\* C19: authenticate_user fails with code INVALID_CREDENTIALS and the same
\* message when no account exists for the email as when the account exists and
\* the password is wrong, and POST /auth/login answers both with 401 and the
\* same detail.
C19_AbsentAndWrongPasswordAlike ==
    \A p \in Procs : (Idle(p) /\ (AbsentAccount(ret[p]) \/ WrongPassword(ret[p]))) =>
        /\ ret[p].code = "INVALID_CREDENTIALS"
        /\ AuthErrorMessage(ret[p].code) = <<"Invalid email or password">>
        /\ ret[p].status = 401
        /\ ret[p].detail = <<"Invalid email or password">>

C19_Witness ==
    \E p, q \in Procs :
        /\ Idle(p) /\ AbsentAccount(ret[p])
        /\ Idle(q) /\ WrongPassword(ret[q])
        /\ ret[p].status = ret[q].status
        /\ ret[p].detail = ret[q].detail

-----------------------------------------------------------------------------
(* PUT /auth/profile *)

\* overlapping update_user_profile calls
NextProfile ==
    \E p \in Procs :
        \/ \E user_id \in ProfileUserIds, name \in ProfileNames :
              update_user_profile(p, user_id, name)
        \/ profile_get_user(p)

SpecProfile == InitAccount /\ [][NextProfile]_vars

\* an update that supplied no mutable field, for an account that exists
NoOpUpdate(r) ==
    /\ r.op = "update_user_profile"
    /\ r.name = Null
    /\ r.user_id \in DOMAIN users
    /\ users[r.user_id].is_active

\* an update, with a field supplied, for a user id no account has
UpdateOfAbsentUser(r) ==
    /\ r.op = "update_user_profile"
    /\ r.name # Null
    /\ r.user_id \notin DOMAIN users

\* C20: what update_user_profile returns, or what PUT /auth/profile answers,
\* differs between an update that changed nothing and an update whose user
\* does not exist.
C20_NoOpDistinctFromNotFound ==
    \A p, q \in Procs :
        (Idle(p) /\ NoOpUpdate(ret[p]) /\ Idle(q) /\ UpdateOfAbsentUser(ret[q])) =>
            \/ ret[p].success # ret[q].success
            \/ ret[p].status # ret[q].status
            \/ ret[p].detail # ret[q].detail

-----------------------------------------------------------------------------
(* Signup, login, login with a wrong password, on a store that starts empty *)

ScenarioEmail == <<"n", "e", "w", "@", "x", ".", "c", "o", "m">>
ScenarioPassword == <<"A", "b", "c", "d", "1", "2", "3", "4", "!">>
ScenarioWrongPassword == <<"w", "r", "o", "n", "g", "p", "a", "s", "s">>
ScenarioPasswords == {ScenarioPassword, GoodPassword}

\* the users collection holds no document
InitEmptyStore ==
    /\ users = [id \in {} |-> UserDoc(ScenarioEmail, ScenarioPassword, 50)]
    /\ ledger = 0
    /\ now = 0
    /\ pc = [p \in Procs |-> "idle"]
    /\ loc = [p \in Procs |-> NoLoc]
    /\ ret = [p \in Procs |-> NoRet]
    /\ calls = 0
    /\ next_jti = 0
    /\ store_rejects = TRUE
    /\ tracker_log = EmptyMap
    /\ failed_attempts = EmptyMap
    /\ issued = {}
    /\ refresh_log = {}
    /\ streak = 0
    /\ blacklisted_tokens = {}
    /\ revocations = {}

\* three calls one after another: create_user, authenticate_user with one of
\* the signup passwords, authenticate_user with the wrong password (two
\* failures at most, so _record_failed_login never gets to its $set)
NextScenarioA ==
    \/ Tick
    \/ /\ calls = 0
       /\ \E password \in ScenarioPasswords, score \in ZxcvbnScores :
             create_user(1, Null, ScenarioEmail, password, score)
    \/ create_user_insert(1)
    \/ create_user_store_refresh_token(1)
    \/ create_user_update_login_stats(1)
    \/ /\ calls = 1
       /\ \E password \in ScenarioPasswords :
             authenticate_user(1, ScenarioEmail, password)
    \/ /\ calls = 2
       /\ authenticate_user(1, ScenarioEmail, ScenarioWrongPassword)
    \/ _record_failed_login_inc(1)
    \/ _record_failed_login_find(1)
    \/ _clear_failed_attempts(1)
    \/ _update_login_stats(1)
    \/ _store_refresh_token(1)

SpecScenarioA == InitEmptyStore /\ [][NextScenarioA]_vars

\* the account the signup with this password created
SignedUpWith(password) ==
    /\ 1 \in DOMAIN users
    /\ users[1].password_hash = hash_password(password)

\* the two tokens of a successful answer
TokenPair(r) ==
    /\ r.access_token.token_type = "access"
    /\ r.refresh_token.token_type = "refresh"
    /\ r.access_token.user_id = r.user_id
    /\ r.refresh_token.user_id = r.user_id
    /\ {r.access_token, r.refresh_token} \subseteq issued

\* the signup with this password passes validation and goes on to insert_one
SignupAccepted(password) ==
    \A score \in ZxcvbnScores :
        (/\ score >= 2
         /\ create_user(1, Null, ScenarioEmail, password, score)) =>
            pc'[1] = "create_user_insert"

\* the answers of the three calls, for the run whose signup used this password
ScenarioAnswers(password) ==
    /\ (calls = 1 /\ Idle(1) /\ SignedUpWith(password)) =>
          /\ ret[1].op = "create_user" /\ ret[1].success
          /\ TokenPair(ret[1])
    /\ (calls = 2 /\ Idle(1) /\ SignedUpWith(password) /\ ret[1].pw_ok) =>
          /\ ret[1].op = "authenticate_user" /\ ret[1].code = "OK"
          /\ TokenPair(ret[1])
          /\ Cardinality(issued) = 4
    /\ (calls = 3 /\ Idle(1) /\ SignedUpWith(password) /\ users[1].login_count = 2) =>
          /\ ret[1].op = "authenticate_user"
          /\ ret[1].code = "INVALID_CREDENTIALS"
          /\ users[1].failed_login_attempts = 1

\* C21 as stated: create_user("new@x.com", "Abcd1234!") on the empty store is
\* accepted and answers with an access and a refresh token; the login with the
\* same credentials then answers with two further tokens; the login with
\* "wrongpass" then fails with INVALID_CREDENTIALS and the account's
\* failed_login_attempts is 1.
C21_ScenarioA ==
    /\ [][SignupAccepted(ScenarioPassword)]_vars
    /\ [](ScenarioAnswers(ScenarioPassword))

\* C21 amended: create_user("new@x.com", "Abcd1234!") on the empty store fails
\* with WEAK_PASSWORD and stores nothing, whatever zxcvbn scores; with a
\* password validate_password_strength accepts ("Go0d!pwx") the three calls
\* answer as the scenario says.
C21_ScenarioA_AcceptedPassword ==
    /\ [][\A score \in ZxcvbnScores :
             create_user(1, Null, ScenarioEmail, ScenarioPassword, score) =>
                 /\ ret'[1].code = "WEAK_PASSWORD"
                 /\ users' = users]_vars
    /\ [][SignupAccepted(GoodPassword)]_vars
    /\ [](ScenarioAnswers(GoodPassword))

C21_Witness ==
    /\ calls = 3 /\ Idle(1) /\ SignedUpWith(GoodPassword)
    /\ users[1].login_count = 2
    /\ ret[1].code = "INVALID_CREDENTIALS"
    /\ users[1].failed_login_attempts = 1
    /\ Cardinality(issued) = 4

-----------------------------------------------------------------------------
(* Logout from every device: properties *)

\* C22: every revoke_refresh_token(user_id) call without a token returns
\* without raising and leaves the account's active set empty; a call that
\* starts where such a call has left the account (the active set empty)
\* changes nothing in the store.
C22_RevokeAllIdempotent ==
    [][\A p \in Procs :
          revoke_refresh_token(p, 1, NoToken) =>
             /\ users'[1].active_refresh_tokens = {}
             /\ ret'[p].code = "OK"
             /\ (users[1].active_refresh_tokens = {} => users' = users)]_vars

\* two calls without a token have returned one after the other, the first
\* one on an account that had an active token
C22_Witness ==
    /\ \A p \in Procs :
          /\ Idle(p)
          /\ ret[p].op = "revoke_refresh_token"
          /\ ret[p].token = NoToken
    /\ calls = 2
    /\ users[1].active_refresh_tokens = {}

-----------------------------------------------------------------------------
(* create_token and verify_token on any dict of caller claims *)

MaxTokenCalls == 3

JWT_ISSUER == "InterviewBot-API"
JWT_AUDIENCE == "InterviewBot-Users"
JWT_SECRET_KEY == "JWT_SECRET_KEY"

\* dict.update: the entries of e replace those of d with the same name
DictUpdate(d, e) ==
    [k \in DOMAIN d \cup DOMAIN e |-> IF k \in DOMAIN e THEN e[k] ELSE d[k]]

\* create_token, lines 32-51: to_encode after the update with the standard
\* claims (jti stands for uuid4's answer)
to_encode(data, token_type, jti) ==
    DictUpdate(data,
               [exp |-> IF token_type = "access"
                        THEN now + JWT_ACCESS_TOKEN_EXPIRE_MINUTES
                        ELSE now + JWT_REFRESH_TOKEN_EXPIRE_DAYS * MinutesPerDay,
                iat |-> now,
                iss |-> JWT_ISSUER,
                aud |-> JWT_AUDIENCE,
                token_type |-> token_type,
                jti |-> jti])

\* jwt.encode: the payload, signed with the key
jwt_encode(payload, key) == [payload |-> payload, key |-> key]

\* jwt.decode with audience and issuer: the exception it raises, or "OK".
\* PyJWT checks the signature, then the registered claims the payload holds:
\* nbf and exp against the clock, then iss and aud
jwt_decode(token, key, audience, issuer) ==
    LET payload == token.payload
    IN IF token.key # key THEN "InvalidSignatureError"
       ELSE IF "nbf" \in DOMAIN payload /\ payload.nbf > now
       THEN "ImmatureSignatureError"
       ELSE IF "exp" \in DOMAIN payload /\ payload.exp <= now
       THEN "ExpiredSignatureError"
       ELSE IF "iss" \notin DOMAIN payload \/ payload.iss # issuer
       THEN "InvalidIssuerError"
       ELSE IF "aud" \notin DOMAIN payload \/ payload.aud # audience
       THEN "InvalidAudienceError"
       ELSE "OK"

\* verify_token, line 73: the type test ("" is the default None)
AnyTypePasses(payload, token_type) == FALSE
TypeMismatch(payload, token_type) ==
    token_type # "" /\ payload.token_type # token_type

\* verify_token on an encoded token: the AuthError code it raises ("None" for
\* an AuthError without code), or "OK" and the payload it returns
verify_encoded(token, token_type) ==
    LET decoded == jwt_decode(token, JWT_SECRET_KEY, JWT_AUDIENCE, JWT_ISSUER)
        code == IF decoded = "ExpiredSignatureError" THEN "TOKEN_EXPIRED"
                ELSE IF decoded # "OK" THEN "INVALID_TOKEN"
                ELSE IF TypeMismatch(token.payload, token_type) THEN "None"
                ELSE "OK"
    IN [code |-> code, payload |-> IF code = "OK" THEN token.payload ELSE << >>]

TokenTypes == {"access", "refresh"}

\* dicts a caller may pass as data: the one AuthService passes, and dicts that
\* use a name create_token or PyJWT gives a meaning to
CallerClaims ==
    {[user_id |-> 1, email |-> AccountEmail],
     [user_id |-> 2],
     [user_id |-> 1, role |-> "admin"],
     [user_id |-> 1, jti |-> 99],
     [user_id |-> 1, token_type |-> "refresh"],
     [user_id |-> 1, exp |-> 5],
     [user_id |-> 1, nbf |-> 20]}

\* no token made, nothing verified
NoRoundTrip ==
    [op |-> "none", data |-> << >>, token_type |-> "", token |-> << >>,
     expected |-> "", at |-> 0, created |-> 0, code |-> "", payload |-> << >>]

InitTokens ==
    /\ users = [id \in UserIds |-> UserDoc(AccountEmail, GoodPassword, 50)]
    /\ ledger = 50
    /\ now = 0
    /\ pc = [p \in Procs |-> "idle"]
    /\ loc = [p \in Procs |-> NoRoundTrip]
    /\ ret = [p \in Procs |-> NoRoundTrip]
    /\ calls = 0
    /\ next_jti = 0
    /\ store_rejects = TRUE
    /\ tracker_log = EmptyMap
    /\ failed_attempts = EmptyMap
    /\ issued = {}
    /\ refresh_log = {}
    /\ streak = 0
    /\ blacklisted_tokens = {}
    /\ revocations = {}

\* token = create_token(data, token_type)
create_token_call(data, token_type) ==
    /\ calls < MaxTokenCalls
    /\ calls' = calls + 1
    /\ next_jti' = next_jti + 1
    /\ loc' = [loc EXCEPT ![1] =
                 [NoRoundTrip EXCEPT
                    !.op = "create_token",
                    !.data = data,
                    !.token_type = token_type,
                    !.created = now,
                    !.token = jwt_encode(to_encode(data, token_type, next_jti + 1),
                                         JWT_SECRET_KEY)]]
    /\ ret' = [ret EXCEPT ![1] = NoRoundTrip]
    /\ UNCHANGED <<users, now, pc, store_rejects, tracker_log, failed_attempts, issued,
                   blacklisted_tokens, refresh_log, revocations, ledger, streak>>

\* verify_token(token, expected) on the token made last
verify_token_call(expected) ==
    /\ loc[1].op = "create_token"
    /\ LET v == verify_encoded(loc[1].token, expected)
       IN ret' = [ret EXCEPT ![1] =
                    [loc[1] EXCEPT !.op = "verify_token",
                                   !.expected = expected,
                                   !.at = now,
                                   !.code = v.code,
                                   !.payload = v.payload]]
    /\ UNCHANGED <<users, now, pc, loc, calls, next_jti, store_rejects, tracker_log,
                   failed_attempts, issued, blacklisted_tokens, refresh_log,
                   revocations, ledger, streak>>

NextTokens ==
    \/ Tick
    \/ \E data \in CallerClaims, token_type \in TokenTypes :
          create_token_call(data, token_type)
    \/ \E expected \in TokenTypes \cup {""} : verify_token_call(expected)

SpecTokens == InitTokens /\ [][NextTokens]_vars

StandardClaims == {"exp", "iat", "iss", "aud", "jti", "token_type"}

\* names create_token sets itself or PyJWT reads when it decodes
RegisteredClaims == StandardClaims \cup {"nbf", "sub"}

\* the round trip of the verify_token call that returned r
RoundTrip(r) ==
    IF r.expected \in {"", r.token_type}
    THEN /\ r.code = "OK"
         /\ \A k \in DOMAIN r.data : k \in DOMAIN r.payload /\ r.payload[k] = r.data[k]
         /\ StandardClaims \subseteq DOMAIN r.payload
         /\ r.payload.token_type = r.token_type
    ELSE r.code # "OK"

\* C23 as stated: for any caller claims, verify_token on the token that
\* create_token has just made returns the caller's claims together with exp,
\* iat, iss, aud, jti and the token_type asked for, and fails when the other
\* token type is expected.
C23_TokenRoundTrip ==
    (ret[1].op = "verify_token" /\ ret[1].at = ret[1].created) => RoundTrip(ret[1])

\* C23 amended: the same for caller claims that use none of the names
\* create_token sets or PyJWT reads (exp, iat, iss, aud, jti, token_type, nbf,
\* sub), and for every verify_token call made before the token's exp.
C23_TokenRoundTrip_OwnNames ==
    (/\ ret[1].op = "verify_token"
     /\ DOMAIN ret[1].data \cap RegisteredClaims = {}
     /\ ret[1].at < ret[1].token.payload.exp) => RoundTrip(ret[1])

C23_Witness ==
    /\ ret[1].op = "verify_token"
    /\ ret[1].data = [user_id |-> 1, role |-> "admin"]
    /\ ret[1].token_type = "refresh"
    /\ ret[1].expected = "access"
    /\ ret[1].code = "None"
    /\ ret[1].at > ret[1].created

-----------------------------------------------------------------------------
(* SecurityMiddleware: the failed-attempts tracker on its own *)

MaxAttemptCount == 6

TrackerIdentifiers ==
    {get_client_identifier(AccountEmail), get_client_identifier(ScenarioEmail)}

\* what the last tracker call answered
TrackerResult(op, identifier, locked_out) ==
    [op |-> op, identifier |-> identifier, locked_out |-> locked_out, at |-> now]

\* tracker_log after a call for identifier: failures counts the
\* record_failed_attempt calls since the last record_successful_attempt
Logged(identifier, failures) ==
    MapPut(tracker_log, identifier, [failures |-> failures, at |-> now])
FailuresLogged(identifier) ==
    IF identifier \in DOMAIN tracker_log THEN tracker_log[identifier].failures ELSE 0

InitTracker ==
    /\ users = [id \in UserIds |-> UserDoc(AccountEmail, GoodPassword, 50)]
    /\ ledger = 50
    /\ now = 0
    /\ pc = [p \in Procs |-> "idle"]
    /\ loc = [p \in Procs |-> NoLoc]
    /\ ret = [p \in Procs |-> TrackerResult("none", <<>>, FALSE)]
    /\ calls = 0
    /\ next_jti = 0
    /\ store_rejects = TRUE
    /\ tracker_log = EmptyMap
    /\ failed_attempts = EmptyMap
    /\ issued = {}
    /\ refresh_log = {}
    /\ streak = 0
    /\ blacklisted_tokens = {}
    /\ revocations = {}

\* SecurityMiddleware.is_locked_out(identifier)
is_locked_out_call(identifier) ==
    /\ ret' = [ret EXCEPT ![1] =
                 TrackerResult("is_locked_out", identifier,
                               is_locked_out(failed_attempts, identifier))]
    /\ failed_attempts' = after_is_locked_out(failed_attempts, identifier)
    /\ tracker_log' = Logged(identifier, FailuresLogged(identifier))
    /\ UNCHANGED <<users, now, pc, loc, calls, next_jti, store_rejects, issued,
                   blacklisted_tokens, refresh_log, revocations, ledger, streak>>

\* SecurityMiddleware.record_failed_attempt(identifier)
record_failed_attempt_call(identifier) ==
    /\ Touched(failed_attempts, identifier)[identifier].count < MaxAttemptCount
    /\ ret' = [ret EXCEPT ![1] =
                 TrackerResult("record_failed_attempt", identifier, FALSE)]
    /\ failed_attempts' = record_failed_attempt(failed_attempts, identifier)
    /\ tracker_log' = Logged(identifier, FailuresLogged(identifier) + 1)
    /\ UNCHANGED <<users, now, pc, loc, calls, next_jti, store_rejects, issued,
                   blacklisted_tokens, refresh_log, revocations, ledger, streak>>

\* SecurityMiddleware.record_successful_attempt(identifier)
record_successful_attempt_call(identifier) ==
    /\ ret' = [ret EXCEPT ![1] =
                 TrackerResult("record_successful_attempt", identifier, FALSE)]
    /\ failed_attempts' = record_successful_attempt(failed_attempts, identifier)
    /\ tracker_log' = Logged(identifier, 0)
    /\ UNCHANGED <<users, now, pc, loc, calls, next_jti, store_rejects, issued,
                   blacklisted_tokens, refresh_log, revocations, ledger, streak>>

\* the tracker's three calls in any order, for either identifier, the clock running
NextTracker ==
    \/ Tick
    \/ \E identifier \in TrackerIdentifiers :
          \/ is_locked_out_call(identifier)
          \/ record_failed_attempt_call(identifier)
          \/ record_successful_attempt_call(identifier)

SpecTracker == InitTracker /\ [][NextTracker]_vars

\* the record's lock has passed
LockPassed(identifier) ==
    /\ identifier \in DOMAIN failed_attempts
    /\ \E t \in failed_attempts[identifier].locked_until : now >= t

C25_RecordOnlyFromFailure ==
    \A identifier \in DOMAIN failed_attempts : FailuresLogged(identifier) > 0

-----------------------------------------------------------------------------
(* cleanup_expired_attempts: the hourly sweep of the tracker *)

SweepTickMinutes == 720
MaxSweepTime == 2880

\* cleanup_expired_attempts, lines 76-83: the records one pass leaves, those
\* without last_attempt and those whose last_attempt is 24 hours old at most
cleanup_expired_attempts(fa) ==
    LET expired_keys ==
            {identifier \in DOMAIN fa :
                \E t \in fa[identifier].last_attempt : now - t > MinutesPerDay}
    IN [identifier \in DOMAIN fa \ expired_keys |-> fa[identifier]]

\* one pass of the loop of cleanup_expired_attempts
cleanup_expired_attempts_pass ==
    /\ failed_attempts' = cleanup_expired_attempts(failed_attempts)
    /\ ret' = [ret EXCEPT ![2] = TrackerResult("cleanup_expired_attempts", <<>>, FALSE)]
    /\ UNCHANGED <<users, now, pc, loc, calls, next_jti, store_rejects, tracker_log,
                   issued, blacklisted_tokens, refresh_log, revocations, ledger,
                   streak>>

\* the clock, in half days
SweepTick ==
    /\ now + SweepTickMinutes <= MaxSweepTime
    /\ now' = now + SweepTickMinutes
    /\ UNCHANGED <<users, pc, loc, ret, calls, next_jti, store_rejects, tracker_log,
                   blacklisted_tokens, revocations,
                   failed_attempts, issued, refresh_log, ledger, streak>>

SweepIdentifiers == {get_client_identifier(AccountEmail)}

\* the tracker's calls for one client and the sweep, over two days
NextSweep ==
    \/ SweepTick
    \/ cleanup_expired_attempts_pass
    \/ \E identifier \in SweepIdentifiers :
          \/ is_locked_out_call(identifier)
          \/ record_failed_attempt_call(identifier)
          \/ record_successful_attempt_call(identifier)

SpecSweep == InitTracker /\ [][NextSweep]_vars

\* no tracker call has been made for the record's identifier for more than
\* the 24 hours of retention
IdleRecord(fa, identifier) ==
    /\ identifier \in DOMAIN fa
    /\ identifier \in DOMAIN tracker_log
    /\ now - tracker_log[identifier].at > MinutesPerDay

\* C26: a pass of the sweep leaves no record that has been idle for more than
\* 24 hours, locked or not, reset by an expired lock or not (so no idle record
\* outlives the next pass).
C26_SweepDeletesIdleRecords ==
    [][cleanup_expired_attempts_pass =>
          \A identifier \in SweepIdentifiers :
              ~IdleRecord(failed_attempts', identifier)]_vars

-----------------------------------------------------------------------------
(* Credits: any integer as cost or amount *)

\* check_credits: one get_user_by_id, then the answer
check_credits(p, user_id, required_credits) ==
    /\ Idle(p)
    /\ calls < MaxCreditCalls
    /\ calls' = calls + 1
    /\ ret' = [ret EXCEPT ![p] =
                 [NoRet EXCEPT !.op = "check_credits",
                               !.n = required_credits,
                               !.success = /\ UserFound(user_id)
                                           /\ users[user_id].credits >= required_credits,
                               !.new_credit_balance =
                                   IF UserFound(user_id)
                                   THEN users[user_id].credits ELSE 0]]
    /\ UNCHANGED <<users, now, pc, loc, next_jti, store_rejects, tracker_log,
                   blacklisted_tokens, revocations, failed_attempts, issued,
                   refresh_log, ledger, streak>>

\* CreditCheckRequest.cost, CreditDeductRequest.cost and the amount of
\* POST /auth/credits/add are int, with no constraint
AnyCosts == {-2, 0, 2, 5}
AnyAmounts == {-2, 0, 1}

\* the three credit requests, overlapping, whatever integer they carry
NextCreditsAnyInt ==
    \E p \in Procs :
        \/ \E id \in UserIds, cost \in AnyCosts : check_credits(p, id, cost)
        \/ \E id \in UserIds, cost \in AnyCosts : deduct_credits_read(p, id, cost)
        \/ deduct_credits_update(p)
        \/ \E id \in UserIds, amount \in AnyAmounts : add_credits_update(p, id, amount)
        \/ add_credits_read(p)

SpecCreditsAnyInt == InitCredits /\ [][NextCreditsAnyInt]_vars

\* C27: the stored credit balance of every account is never negative, whatever
\* check_credits, deduct_credits and add_credits calls are made and whatever
\* integers, negative ones included, they are given.
C27_BalanceNeverNegativeAnyInt ==
    ~ \E id \in DOMAIN users : users[id].credits < 0

-----------------------------------------------------------------------------
(* The tracker's lockout seen from POST /auth/login *)

\* C28: a POST /auth/login request made while the tracker has its client
\* identifier locked out leaves the identifier's failure count and its
\* locked_until as they were, so that the lockout ends no later than the lockout
\* duration after the failure that set it.
C28_LockedOutRequestsLeaveLock ==
    [][\A email \in EmailInputs, password \in Passwords :
          (/\ is_locked_out(failed_attempts, get_client_identifier(email))
           /\ login(1, email, password)) =>
              LET identifier == get_client_identifier(email)
              IN /\ failed_attempts'[identifier].count =
                       failed_attempts[identifier].count
                 /\ failed_attempts'[identifier].locked_until =
                       failed_attempts[identifier].locked_until]_vars

-----------------------------------------------------------------------------
(* Logout from every device while a refresh is in flight *)

\* revoke_refresh_token(user_id) without a token has returned
RevokedAll(user_id) == [user_id |-> user_id, token |-> NoToken] \in revocations

-----------------------------------------------------------------------------
(* POST /auth/logout *)

\* what logout answered (lines 165-166 and 168-171 both answer 200)
LogoutResult(l) ==
    [NoRet EXCEPT !.op = "logout",
                  !.code = "OK",
                  !.token = l.token,
                  !.refresh_token = l.new_refresh,
                  !.user_id = l.user_id,
                  !.at = now,
                  !.status = 200,
                  !.detail = <<"Successfully logged out">>]

\* POST /auth/logout up to get_user_by_id: the dependency get_current_user
\* with the bearer token; refresh_token is the X-Refresh-Token header
\* (NoToken: no header), kept in the request's new_refresh local
logout(p, token, refresh_token) ==
    /\ Idle(p)
    /\ calls < MaxGateCalls
    /\ calls' = calls + 1
    /\ LET v == verify_token(token, "access")
           fail(code, detail) ==
               /\ ret' = [ret EXCEPT ![p] =
                            GateResult(code, token, 0, now,
                                       is_token_blacklisted(token), detail)]
               /\ UNCHANGED <<pc, loc>>
       IN IF token = NoToken THEN fail("NO_CREDENTIALS", "Authorization token required")
          ELSE IF v # "OK" THEN fail(v, GateErrorDetail(v))
          ELSE IF token.user_id = 0 THEN fail("NO_USER_ID", "Invalid token payload")
          ELSE IF is_token_blacklisted(token)
          THEN fail("BLACKLISTED", "Token has been revoked")
          ELSE /\ loc' = [loc EXCEPT ![p] =
                            [NoLoc EXCEPT !.op = "logout",
                                          !.token = token,
                                          !.new_refresh = refresh_token,
                                          !.user_id = token.user_id,
                                          !.at = now]]
               /\ pc' = [pc EXCEPT ![p] = "logout_get_user"]
               /\ ret' = [ret EXCEPT ![p] = NoRet]
    /\ UNCHANGED <<users, now, next_jti, store_rejects, tracker_log, failed_attempts,
                   issued, blacklisted_tokens, refresh_log, revocations, ledger,
                   streak>>

\* the dependency's get_user_by_id: 401, or the endpoint's body begins
logout_get_user(p) ==
    /\ pc[p] = "logout_get_user"
    /\ IF UserFound(loc[p].user_id)
       THEN /\ pc' = [pc EXCEPT ![p] = "logout_revoke"]
            /\ UNCHANGED <<loc, ret>>
       ELSE /\ ret' = [ret EXCEPT ![p] =
                         GateResult("USER_NOT_FOUND", loc[p].token, 0, loc[p].at,
                                    FALSE, "User not found or inactive")]
            /\ pc' = [pc EXCEPT ![p] = "idle"]
            /\ loc' = [loc EXCEPT ![p] = NoLoc]
    /\ UNCHANGED <<users, now, calls, next_jti, store_rejects, tracker_log,
                   failed_attempts, issued, blacklisted_tokens, refresh_log,
                   revocations, ledger, streak>>

\* logout, lines 159-166: revoke_refresh_token with the header's token or with
\* none, then the answer.  No other service call is made.
logout_revoke(p) ==
    /\ pc[p] = "logout_revoke"
    /\ users' = revoke_update(loc[p].user_id, loc[p].new_refresh)
    /\ revocations' = revocations \cup
                        {[user_id |-> loc[p].user_id, token |-> loc[p].new_refresh]}
    /\ ret' = [ret EXCEPT ![p] = LogoutResult(loc[p])]
    /\ pc' = [pc EXCEPT ![p] = "idle"]
    /\ loc' = [loc EXCEPT ![p] = NoLoc]
    /\ UNCHANGED <<now, calls, next_jti, store_rejects, tracker_log, failed_attempts,
                   issued, blacklisted_tokens, refresh_log, ledger, streak>>

\* logouts and other authenticated requests of one client, one after another
NextLogout ==
    \/ Tick
    \/ \E token \in BearerTokens, refresh_token \in {NoToken, FirstRefresh} :
          logout(1, token, refresh_token)
    \/ logout_get_user(1)
    \/ logout_revoke(1)
    \/ \E token \in BearerTokens : get_current_user(1, token)
    \/ gate_get_user(1)

SpecLogout == InitAccount /\ [][NextLogout]_vars

\* the last request answered was a logout, authorised by this access token
LoggedOutWith(token) ==
    /\ Idle(1)
    /\ ret[1].op = "logout"
    /\ ret[1].status = 200
    /\ ret[1].token = token

\* C30: once POST /auth/logout has answered 200, the jti of the access token
\* that authorised it is in blacklisted_tokens, and a request that presents
\* that token before its exp is rejected by get_current_user.
C30_LogoutBlacklistsAccessToken ==
    /\ [](\A token \in issued :
             LoggedOutWith(token) => token.jti \in blacklisted_tokens)
    /\ [][\A token \in issued :
             (/\ LoggedOutWith(token)
              /\ now < token.exp
              /\ get_current_user(1, token)) =>
                 /\ pc'[1] = "idle"
                 /\ ret'[1].code = "BLACKLISTED"]_vars

====
